---- MODULE Spec2Model ----
(***************************************************************************)
(* Interview Intelligence Engine: the rule-based analysis engine           *)
(* (src/utils/analysisEngine.ts) and the two progress trackers             *)
(* (services/progressService.ts, services/enhancedProgressService.ts)      *)
(* over the browser's localStorage.                                        *)
(***************************************************************************)
EXTENDS Integers, Sequences, FiniteSets, TLC

VARIABLES
  transcript,    \* analyzeInterview's transcript argument
  duration,      \* analyzeInterview's duration argument (seconds)
  questionType,  \* analyzeInterview's optional questionType argument
  apiKey,        \* AI_CONFIG.openai.apiKey (VITE_OPENAI_API_KEY)
  result,        \* what the last analyzeInterview call returned (NoResult before)
  aiCalls,       \* how many times openaiClient.analyzeInterview was called
  runs,          \* per handleAnalyze invocation, in order: how far it came
  store,         \* localStorage: key -> stored item
  history,       \* per tracker: the records appended since its log was last empty
  call,          \* the last tracker call and how it completed
  tabs,          \* the appends under way in the tabs that share localStorage
  stt            \* the speechService.transcribeAudio call under way

engineVars == <<transcript, duration, questionType, apiKey, result, aiCalls, runs>>
trackerVars == <<store, history, call>>
vars == <<transcript, duration, questionType, apiKey, result, aiCalls, runs,
          store, history, call, tabs, stt>>

(***************************************************************************)
(* Bounds of the exploration.                                              *)
(***************************************************************************)
\* a transcript is the concatenation of at most MaxParts phrases of Phrases
MaxParts == 2
\* the first MaxVaried appends of a tracker take any input of the input set;
\* later ones take the default input
MaxVaried == 3
\* appends explored beyond a tracker's capacity
MaxOverflow == 2
\* the appends the two tabs start
MaxTabAppends == 3
\* the status polls of a transcription that are counted
MaxPolls == 4
\* the invocations of handleAnalyze in a row: one analysis and its re-analyses
MaxAnalyses == 3

(***************************************************************************)
(* JavaScript values and arithmetic.                                       *)
(***************************************************************************)
\* the value of an absent optional string (questionType?, audioUrl?)
Undefined == "<undefined>"

Max(a, b) == IF a >= b THEN a ELSE b
Min(a, b) == IF a <= b THEN a ELSE b

\* Math.round(p / q) for q > 0: the nearest integer, a half rounding up
Round(p, q) == (2 * p + q) \div (2 * q)

\* a truthy string: neither undefined nor empty
Truthy(s) == s # Undefined /\ s # ""

(***************************************************************************)
(* Strings.                                                                *)
(***************************************************************************)
CharAt(s, i) == SubSeq(s, i, i)

WhiteSpace == {" ", "\t", "\n"}
Digits == {"0", "1", "2", "3", "4", "5", "6", "7", "8", "9"}
UpperCase == "ABCDEFGHIJKLMNOPQRSTUVWXYZ"
LowerCase == "abcdefghijklmnopqrstuvwxyz"
UpperChars == {CharAt(UpperCase, i) : i \in 1..26}
LowerChars == {CharAt(LowerCase, i) : i \in 1..26}
LowerOf == [c \in UpperChars |->
             CharAt(LowerCase, CHOOSE i \in 1..26 : CharAt(UpperCase, i) = c)]

\* \w
WordChars == UpperChars \cup LowerChars \cup Digits \cup {"_"}
IsWordChar(c) == c \in WordChars

LowerChar(c) == IF c \in UpperChars THEN LowerOf[c] ELSE c

\* the characters lo..hi of s, each lower-cased
RECURSIVE LowerRange(_, _, _)
LowerRange(s, lo, hi) ==
  IF lo > hi THEN ""
  ELSE IF lo = hi THEN LowerChar(CharAt(s, lo))
  ELSE LET mid == (lo + hi) \div 2
       IN  LowerRange(s, lo, mid) \o LowerRange(s, mid + 1, hi)

\* String.prototype.toLowerCase
toLowerCase(s) == LowerRange(s, 1, Len(s))

RECURSIVE TrimStartFrom(_, _)
TrimStartFrom(s, i) ==
  IF i <= Len(s) /\ CharAt(s, i) \in WhiteSpace
  THEN TrimStartFrom(s, i + 1)
  ELSE SubSeq(s, i, Len(s))

RECURSIVE TrimEndFrom(_, _)
TrimEndFrom(s, j) ==
  IF j >= 1 /\ CharAt(s, j) \in WhiteSpace
  THEN TrimEndFrom(s, j - 1)
  ELSE SubSeq(s, 1, j)

\* String.prototype.trim
trim(s) == TrimEndFrom(TrimStartFrom(s, 1), Len(TrimStartFrom(s, 1)))

\* String.prototype.includes
includes(s, sub) ==
  \E i \in 1..(Len(s) - Len(sub) + 1) : SubSeq(s, i, i + Len(sub) - 1) = sub

\* The pieces of s[lo..hi] between its separator characters, one piece per gap
\* (an empty piece between two adjacent separators), by halving the range.
RECURSIVE SplitRange(_, _, _, _)
SplitRange(s, seps, lo, hi) ==
  IF lo > hi THEN << "" >>
  ELSE IF lo = hi
       THEN IF CharAt(s, lo) \in seps THEN << "", "" >> ELSE << CharAt(s, lo) >>
  ELSE LET mid   == (lo + hi) \div 2
           left  == SplitRange(s, seps, lo, mid)
           right == SplitRange(s, seps, mid + 1, hi)
       IN  SubSeq(left, 1, Len(left) - 1)
             \o << left[Len(left)] \o right[1] >>
             \o SubSeq(right, 2, Len(right))

\* s.split(sep) for a one-character separator
SplitChar(s, sep) == SplitRange(s, {sep}, 1, Len(s))

\* s.split(/[seps]+/): a run of separators splits once, so the empty pieces
\* inside a run are not pieces; the first and the last piece stay, empty or not
SplitRuns(s, seps) ==
  LET each == SplitRange(s, seps, 1, Len(s))
      n    == Len(each)
      Kept(i) == i = 1 \/ i = n \/ each[i] # ""
      RECURSIVE Keep(_, _)
      Keep(lo, hi) ==
        IF lo > hi THEN << >>
        ELSE IF lo = hi THEN (IF Kept(lo) THEN << each[lo] >> ELSE << >>)
        ELSE LET mid == (lo + hi) \div 2
             IN  Keep(lo, mid) \o Keep(mid + 1, hi)
  IN  Keep(1, n)

NonEmpty(s) == Len(s) > 0
NonBlank(s) == Len(trim(s)) > 0

\* /w1|w2|.../i.test(s), given low = s lower-cased
TestAny(low, literals) == \E w \in literals : includes(low, w)

\* a match of \bw\b at position i of low
WordAt(low, w, i) ==
  /\ i + Len(w) - 1 <= Len(low)
  /\ SubSeq(low, i, i + Len(w) - 1) = w
  /\ (i = 1 \/ ~IsWordChar(CharAt(low, i - 1)))
  /\ (i + Len(w) > Len(low) \/ ~IsWordChar(CharAt(low, i + Len(w))))

\* s.match(/\b(w1|w2|...)\b/gi)?.length || 0, given low = s lower-cased
MatchCount(low, literals) ==
  Cardinality({i \in 1..Len(low) :
                 /\ IsWordChar(CharAt(low, i))
                 /\ (i = 1 \/ ~IsWordChar(CharAt(low, i - 1)))
                 /\ \E w \in literals : WordAt(low, w, i)})

(***************************************************************************)
(* The analysis engine (src/utils/analysisEngine.ts).                      *)
(***************************************************************************)
fillerWords == {"um", "uh", "like", "you know", "so", "actually", "basically"}
exampleWords == {"example", "instance", "case", "situation", "experience"}
actionWords ==
  {"achieved", "accomplished", "led", "managed", "created", "improved", "developed"}
interrogativeWords == {"what", "when", "where", "why", "how", "who"}
businessWords == {"experience", "skills", "project", "team", "challenge", "solution"}
casualWords == {"awesome", "cool", "stuff", "things"}
sentenceEnds == {".", "!", "?"}

\* the bonus added when its condition holds
Bonus(cond, points) == IF cond THEN points ELSE 0

\* a score left as the bonuses add up, against which the cap is checked
Uncapped(score) == score

\* the "Cap scores at 100" step
CapScore(score) == Min(score, 100)

\* the suggestion that names the question type
ConfigureHintBasic(qt) ==
  "Configure AI services (OpenAI API key) for advanced analysis and personalized feedback"
    \o (IF Truthy(qt) THEN " for " \o qt \o " questions" ELSE "")

ConfigureHintFallback(qt) ==
  "Configure AI services for advanced analysis"
    \o (IF Truthy(qt) THEN " of " \o qt \o " questions" ELSE "")

createBasicAnalysis(t, d, qt) ==
  LET low == toLowerCase(t)
      words == SelectSeq(SplitRuns(low, WhiteSpace), NonEmpty)
      nWords == Len(words)
      \* durationInMinutes = Math.max(duration / 60, 1) = Max(d, 60) / 60
      wordsPerMinute == Round(nWords * 60, Max(d, 60))
      IsFiller(word) == \E filler \in fillerWords : includes(word, filler)
      fillerWordCount == Len(SelectSeq(words, IsFiller))
      sentences == SplitRuns(t, sentenceEnds)
      sentenceCount == Len(SelectSeq(sentences, NonBlank))
      \* avgWordsPerSentence = nWords / avgDen
      avgDen == Max(sentenceCount, 1)
      hasNumbers == \E i \in 1..Len(t) : CharAt(t, i) \in Digits
      hasExamples == TestAny(low, exampleWords)
      hasActionWords == TestAny(low, actionWords)
      questionWords == MatchCount(low, interrogativeWords)
      IsComplex(s) == Len(SplitChar(s, ",")) > 2
      complexSentences == Len(SelectSeq(sentences, IsComplex))
      \* fillerWordCount < words.length * 0.05 and * 0.08, in exact arithmetic
      fewFillers5 == 20 * fillerWordCount < nWords
      fewFillers8 == 25 * fillerWordCount < 2 * nWords
      manyFillers8 == 25 * fillerWordCount > 2 * nWords
      confidenceScore ==
        50 + Bonus(hasExamples, 15) + Bonus(hasActionWords, 10)
           + Bonus(hasNumbers, 10) + Bonus(fewFillers5, 15)
           + Bonus(nWords > 8 * avgDen /\ nWords < 20 * avgDen, 10)
      clarityScore ==
        50 + Bonus(sentenceCount > 2, 15)
           + Bonus(nWords > 6 * avgDen /\ nWords < 25 * avgDen, 20)
           + Bonus(complexSentences > 0, 10) + Bonus(fewFillers8, 15)
      professionalismScore ==
        60 + Bonus(MatchCount(low, businessWords) > 0, 15)
           + Bonus(hasActionWords, 15)
           + Bonus(MatchCount(low, casualWords) = 0, 10)
           + Bonus(hasNumbers, 5)
      relevanceScore ==
        50 + Bonus(hasExamples, 20) + Bonus(hasNumbers, 15)
           + Bonus(hasActionWords, 10) + Bonus(nWords > 50, 10)
           + Bonus(questionWords = 0, 5)
  IN  [ transcript |-> t,
        duration   |-> d,
        metrics    |->
          [ wordsPerMinute       |-> wordsPerMinute,
            fillerWords          |-> fillerWordCount,
            confidenceScore      |-> Round(CapScore(confidenceScore), 1),
            clarityScore         |-> Round(CapScore(clarityScore), 1),
            professionalismScore |-> Round(CapScore(professionalismScore), 1),
            relevanceScore       |-> Round(CapScore(relevanceScore), 1) ],
        feedback   |->
          [ strengths |->
              << IF nWords > 100 THEN "Comprehensive response with good detail"
                                 ELSE "Concise and focused response",
                 IF hasExamples THEN "Used specific examples to support points"
                                ELSE "Clear communication style",
                 IF fewFillers5 THEN "Minimal use of filler words"
                                ELSE "Generally clear delivery",
                 IF nWords > 8 * avgDen THEN "Well-structured sentences"
                                        ELSE "Concise expression" >>,
            improvements |->
              << IF ~hasExamples
                   THEN "Include more specific examples to illustrate points"
                   ELSE "Continue providing concrete examples",
                 IF manyFillers8
                   THEN "Reduce filler words for more polished delivery"
                   ELSE "Maintain clear speaking pattern",
                 IF ~hasNumbers THEN "Add quantifiable results when possible"
                                ELSE "Good use of specific data",
                 IF nWords < 50 THEN "Provide more detailed responses"
                                ELSE "Consider organizing longer responses better" >>,
            suggestions |->
              << ConfigureHintBasic(qt),
                 "Practice the STAR method (Situation, Task, Action, Result) for structured responses",
                 "Record practice sessions to track improvement over time",
                 "Focus on incorporating specific metrics and achievements in your responses" >> ],
        aiPowered  |-> FALSE ]

createFallbackAnalysis(d, qt) ==
  [ transcript |->
      "No transcript available. Please ensure your microphone is working and speech recognition is enabled.",
    duration   |-> d,
    metrics    |->
      [ wordsPerMinute       |-> 0,
        fillerWords          |-> 0,
        confidenceScore      |-> 0,
        clarityScore         |-> 0,
        professionalismScore |-> 0,
        relevanceScore       |-> 0 ],
    feedback   |->
      [ strengths    |-> << "Recording session completed" >>,
        improvements |->
          << "No audio content detected for analysis",
             "Ensure microphone permissions are granted",
             "Check if browser supports speech recognition" >>,
        suggestions  |->
          << "Test microphone before recording",
             "Speak clearly and at normal volume",
             "Try recording in a quiet environment",
             ConfigureHintFallback(qt) >> ],
    aiPowered  |-> FALSE ]

\* !transcript alone: the test without the trim, against which the
\* whitespace-only case is checked
IsEmptyString(t) == ~Truthy(t)

\* !transcript || transcript.trim().length === 0
IsBlank(t) == ~Truthy(t) \/ Len(trim(t)) = 0

\* isConfigured() of config/aiConfig
isConfigured(key) == Truthy(key) /\ key # "your_openai_api_key_here"


(***************************************************************************)
(* The AI client (services/openaiClient), as analyzeInterview uses it.     *)
(***************************************************************************)
clientFillerWords ==
  {"um", "uh", "like", "you know", "so", "actually", "basically",
   "literally", "right", "okay"}

calculateWPM(t, d) ==
  Round(Len(SelectSeq(SplitRuns(trim(t), WhiteSpace), NonEmpty)) * 60, Max(d, 60))

countFillerWords(t) ==
  LET IsFiller(word) == \E filler \in clientFillerWords : includes(word, filler)
  IN  Len(SelectSeq(SplitRuns(toLowerCase(t), WhiteSpace), IsFiller))

\* What the chat completion can come to: a transport or parse failure, or the
\* fields of the JSON object the model answered with.
AIReplies ==
  { [ failed |-> TRUE ],
    [ failed |-> FALSE,
      confidenceScore |-> 85, clarityScore |-> 90,
      professionalismScore |-> 80, relevanceScore |-> 75,
      emotionalIntelligence |-> 82, structureScore |-> 88,
      strengths |-> << "Clear structure" >>,
      improvements |-> << "Quantify the outcome" >>,
      suggestions |-> << "Use the STAR method" >>,
      specificTips |-> << "Open with the result" >>,
      speechPattern |-> "Measured pace", contentQuality |-> "Relevant",
      professionalPresence |-> "Composed", improvementPlan |-> << "Rehearse" >> ],
    [ failed |-> FALSE,
      confidenceScore |-> 120, clarityScore |-> 0 - 5,
      professionalismScore |-> 100, relevanceScore |-> 0,
      emotionalIntelligence |-> 0, structureScore |-> 0,
      strengths |-> << >>, improvements |-> << >>,
      suggestions |-> << >>, specificTips |-> << >>,
      speechPattern |-> "", contentQuality |-> "",
      professionalPresence |-> "", improvementPlan |-> << >> ] }

\* x || fallback for a number x
OrNumber(x, fallback) == IF x = 0 THEN fallback ELSE x
\* x || fallback for a string x
OrString(x, fallback) == IF Truthy(x) THEN x ELSE fallback

\* openaiClient.analyzeInterview: a completion record, thrown or returned
clientAnalyzeInterview(t, d, qt, key, reply) ==
  IF ~Truthy(key) \/ reply.failed
  THEN [ threw |-> TRUE ]
  ELSE [ threw |-> FALSE,
         value |->
           [ metrics |->
               [ wordsPerMinute       |-> calculateWPM(t, d),
                 fillerWords          |-> countFillerWords(t),
                 confidenceScore      |-> reply.confidenceScore,
                 clarityScore         |-> reply.clarityScore,
                 professionalismScore |-> reply.professionalismScore,
                 relevanceScore       |-> reply.relevanceScore,
                 emotionalIntelligence |-> OrNumber(reply.emotionalIntelligence, 75),
                 structureScore       |-> OrNumber(reply.structureScore, 70) ],
             feedback |->
               [ strengths    |-> reply.strengths,
                 improvements |-> reply.improvements,
                 suggestions  |-> reply.suggestions,
                 specificTips |-> reply.specificTips ],
             detailedAnalysis |->
               [ speechPattern |-> OrString(reply.speechPattern, "Analysis unavailable"),
                 contentQuality |-> OrString(reply.contentQuality, "Analysis unavailable"),
                 professionalPresence |->
                   OrString(reply.professionalPresence, "Analysis unavailable"),
                 improvementPlan |-> reply.improvementPlan ] ] ]

\* analyzeInterview without the catch around the AI call: a failure of the
\* AI client reaches the caller, against which the fallback is checked
analyzeInterviewNoCatch(t, d, qt, key, reply) ==
  IF IsBlank(t)
  THEN [ threw |-> FALSE, calledAI |-> FALSE, value |-> createFallbackAnalysis(d, qt) ]
  ELSE IF isConfigured(key)
  THEN LET aiResult == clientAnalyzeInterview(t, d, qt, key, reply)
       IN  IF aiResult.threw
           THEN [ threw |-> TRUE, calledAI |-> TRUE, value |-> << >> ]
           ELSE [ threw |-> FALSE, calledAI |-> TRUE,
                  value |-> [ transcript |-> t,
                              duration   |-> d,
                              metrics    |-> aiResult.value.metrics,
                              feedback   |-> aiResult.value.feedback,
                              aiPowered  |-> TRUE ] ]
  ELSE [ threw |-> FALSE, calledAI |-> FALSE, value |-> createBasicAnalysis(t, d, qt) ]

\* analyzeInterview of utils/analysisEngine: a completion record, with whether
\* openaiClient.analyzeInterview was called on the way
analyzeInterview(t, d, qt, key, reply) ==
  IF IsBlank(t)
  THEN [ threw |-> FALSE, calledAI |-> FALSE, value |-> createFallbackAnalysis(d, qt) ]
  ELSE IF isConfigured(key)
  THEN LET aiResult == clientAnalyzeInterview(t, d, qt, key, reply)
       IN  IF aiResult.threw
           THEN [ threw |-> FALSE, calledAI |-> TRUE,
                  value |-> createBasicAnalysis(t, d, qt) ]
           ELSE [ threw |-> FALSE, calledAI |-> TRUE,
                  value |-> [ transcript |-> t,
                              duration   |-> d,
                              metrics    |-> aiResult.value.metrics,
                              feedback   |-> aiResult.value.feedback,
                              aiPowered  |-> TRUE ] ]
  ELSE [ threw |-> FALSE, calledAI |-> FALSE, value |-> createBasicAnalysis(t, d, qt) ]

(***************************************************************************)
(* localStorage and JSON.                                                  *)
(***************************************************************************)
BasicKey == "interview_progress_data"
EnhancedKey == "enhanced_interview_progress"
Keys == {BasicKey, EnhancedKey}

\* What getItem can return for a key: null (no item), or the item's string,
\* which is the JSON text of a value, the empty string, or some other text
\* that is no JSON.
Absent == [ kind |-> "absent" ]
EmptyText == [ kind |-> "empty" ]
Garbage == [ kind |-> "garbage" ]
JsonText(v) == [ kind |-> "json", json |-> v ]

\* A JavaScript object is the function from its property names to their
\* values; reading a property the object does not have gives undefined.
Prop(o, name) == IF name \in DOMAIN o THEN o[name] ELSE Undefined

\* JSON.stringify of an object whose properties named in optional may be
\* undefined: such a property is left out of the text; the other values of the
\* logs (finite numbers, strings, booleans, arrays, objects of these) are
\* written as they are.
ObjectToJson(o, optional) ==
  [name \in {n \in DOMAIN o : ~(n \in optional /\ o[n] = Undefined)} |-> o[name]]

\* JSON.parse of an item's string: the value the text denotes, or a SyntaxError
JSONparse(item) ==
  IF item.kind = "json"
  THEN [ threw |-> FALSE, value |-> item.json ]
  ELSE [ threw |-> TRUE, value |-> << >> ]

\* JSON.stringify of an array of objects whose properties named in optional
\* may be undefined
JSONstringify(array, optional) ==
  JsonText([i \in 1..Len(array) |-> ObjectToJson(array[i], optional)])

\* Array.prototype.slice(start, end): 0-based, end exclusive, a negative index
\* counting from the end
SliceIndex(n, i) == IF i < 0 THEN Max(n + i, 0) ELSE Min(i, n)
slice(seq, start, end) ==
  SubSeq(seq, SliceIndex(Len(seq), start) + 1, SliceIndex(Len(seq), end))
\* Array.prototype.slice(start)
sliceFrom(seq, start) == slice(seq, start, Len(seq))
\* Array.prototype.reverse
Reverse(seq) == [i \in 1..Len(seq) |-> seq[Len(seq) + 1 - i]]

\* localStorage.setItem: the write, or a thrown QuotaExceededError
setItem(st, key, item, quotaExceeded) ==
  IF quotaExceeded
  THEN [ threw |-> TRUE, store |-> st ]
  ELSE [ threw |-> FALSE, store |-> [st EXCEPT ![key] = item] ]

\* a removal that empties the whole store, against which the trackers'
\* independence is checked
removeEveryItem(st, key) == [k \in DOMAIN st |-> Absent]

\* localStorage.removeItem
removeItem(st, key) == [st EXCEPT ![key] = Absent]

\* generateId() and new Date().toISOString(): a token no record of the log
\* carries yet, named by the ordinal of the record among those appended since
\* the log was last empty
generateId(appended) == Len(appended) + 1

(***************************************************************************)
(* The basic tracker (services/progressService).                           *)
(***************************************************************************)
BasicCap == 50

\* the optional properties of an InterviewSession
SessionOptional == {"questionType"}

\* getAllSessions without its try/catch: the SyntaxError of JSON.parse
\* reaches the caller, against which the catch is checked
getAllSessionsNoCatch(st) ==
  LET data == st[BasicKey]
  IN  IF data.kind \in {"absent", "empty"}
      THEN [ threw |-> FALSE, value |-> << >> ]
      ELSE JSONparse(data)

\* ProgressTrackingService.getAllSessions
getAllSessions(st) ==
  LET data == st[BasicKey]
  IN  IF data.kind \in {"absent", "empty"}
      THEN [ threw |-> FALSE, value |-> << >> ]
      ELSE LET parsed == JSONparse(data)
           IN  IF parsed.threw
               THEN [ threw |-> FALSE, value |-> << >> ]
               ELSE [ threw |-> FALSE, value |-> parsed.value ]

\* { ...session, id, date }
NewSession(session, id) == [ id |-> id, date |-> id ] @@ session

\* existingSessions.slice(0, 50): the oldest sessions kept instead of the
\* newest, against which the order of eviction is checked
KeepOldest(sessions) == slice(sessions, 0, BasicCap)

\* the newest 50 sessions, newest first; against which the order of the
\* records kept is checked
KeepReversed(sessions) == Reverse(sliceFrom(sessions, 0 - BasicCap))

\* the sessions kept: existingSessions.slice(-50)
LimitSessions(sessions) == sliceFrom(sessions, 0 - BasicCap)

\* ProgressTrackingService.saveSession: the store it leaves, the record it
\* pushed, and whether it threw
saveSession(st, session, id, quotaExceeded) ==
  LET existingSessions == getAllSessions(st).value
      newSession       == NewSession(session, id)
      limitedSessions  == LimitSessions(Append(existingSessions, newSession))
      written == setItem(st, BasicKey,
                         JSONstringify(limitedSessions, SessionOptional), quotaExceeded)
  IN  [ threw |-> written.threw, store |-> written.store, pushed |-> newSession ]

\* a clear that removes the enhanced tracker's key, against which the basic
\* tracker's clear is checked
clearOtherKey(st) == removeItem(st, EnhancedKey)

\* ProgressTrackingService.clearAllData
clearAllData(st) == removeItem(st, BasicKey)

(***************************************************************************)
(* Statistics of the basic tracker.                                        *)
(***************************************************************************)
\* the sum of seq[lo..hi], by halves
RECURSIVE SumRange(_, _, _)
SumRange(seq, lo, hi) ==
  IF lo > hi THEN 0
  ELSE IF lo = hi THEN seq[lo]
  ELSE LET mid == (lo + hi) \div 2
       IN  SumRange(seq, lo, mid) + SumRange(seq, mid + 1, hi)

Sum(seq) == SumRange(seq, 1, Len(seq))

\* A quotient num / den of integers, den >= 0. The quotients taken are sums
\* over counts, so den = 0 comes with num = 0: 0 / 0, which is NaN.
Frac(num, den) == [ num |-> num, den |-> den ]
IsNaN(x) == x.den = 0
\* the number NaN among the integers of the statistics: a value that no
\* arithmetic on scores yields
NaN == 0 - 1000000
\* x < y, false when either is NaN
FracLess(x, y) == ~IsNaN(x) /\ ~IsNaN(y) /\ x.num * y.den < y.num * x.den
\* x - y, NaN when either is NaN
\* the subtraction with its operands exchanged, against which the direction of
\* the basic trend is checked
FracSubReversed(x, y) == Frac(y.num * x.den - x.num * y.den, x.den * y.den)
FracSub(x, y) == Frac(x.num * y.den - y.num * x.den, x.den * y.den)
\* Math.round(x), NaN for NaN
RoundFrac(x) == IF IsNaN(x) THEN NaN ELSE Round(x.num, x.den)
\* a - b for numbers of the statistics, NaN when either is NaN
NumSub(a, b) == IF a = NaN \/ b = NaN THEN NaN ELSE a - b

\* x with no default: NaN stays NaN, against which the || 0 of the means is
\* checked
KeepNaN(x) == x

\* x || 0: 0 for NaN and for 0
OrZero(x) == IF IsNaN(x) \/ x.num = 0 THEN Frac(0, 1) ELSE x

\* sum / n || 0: the mean, 0 for the NaN of an empty slice
MeanOrZero(seq) == OrZero(Frac(Sum(seq), Len(seq)))

\* an insertion that keeps one entry per value, as a ranking of distinct
\* values would, against which the handling of equal averages is checked
RECURSIVE InsertDistinct(_, _)
InsertDistinct(out, e) ==
  IF out = << >> THEN << e >>
  ELSE IF FracLess(Head(out).value, e.value)
       THEN << e >> \o out
       ELSE IF FracLess(e.value, Head(out).value)
            THEN << Head(out) >> \o InsertDistinct(Tail(out), e)
            ELSE out

\* the place of entry e in the sorted sequence out: before the first entry
\* that the comparator puts after it (Array.prototype.sort is stable)
RECURSIVE InsertDescending(_, _)
InsertDescending(out, e) ==
  IF out = << >> THEN << e >>
  ELSE IF FracLess(Head(out).value, e.value)
       THEN << e >> \o out
       ELSE << Head(out) >> \o InsertDescending(Tail(out), e)

\* entries.sort(([,a], [,b]) => b - a)
RECURSIVE SortDescendingFrom(_, _, _)
SortDescendingFrom(entries, i, out) ==
  IF i > Len(entries) THEN out
  ELSE SortDescendingFrom(entries, i + 1, InsertDescending(out, entries[i]))

SortDescending(entries) == SortDescendingFrom(entries, 1, << >>)

Entry(name, value) == [ name |-> name, value |-> value ]
\* entries.map(([name]) => name)
EntryNames(entries) == [i \in 1..Len(entries) |-> entries[i].name]
\* sessions.map(s => s.overallScore)
OverallScores(sessions) == [i \in 1..Len(sessions) |-> sessions[i].overallScore]
\* sessions.map(s => s.metrics[name])
MetricScores(sessions, name) == [i \in 1..Len(sessions) |-> sessions[i].metrics[name]]

\* ProgressTrackingService.getProgressStats
getProgressStats(st) ==
  LET sessions == getAllSessions(st).value
      totalSessions == Len(sessions)
      scores == OverallScores(sessions)
      averageScore == Frac(Sum(scores), totalSessions)
      halfPoint == totalSessions \div 2
      firstHalfAvg == MeanOrZero(slice(scores, 0, halfPoint))
      secondHalfAvg == Frac(Sum(sliceFrom(scores, halfPoint)), totalSessions - halfPoint)
      improvementTrend == FracSub(secondHalfAvg, firstHalfAvg)
      Avg(name) == Frac(Sum(MetricScores(sessions, name)), totalSessions)
      avgMetrics ==
        << Entry("confidence", Avg("confidenceScore")),
           Entry("clarity", Avg("clarityScore")),
           Entry("professionalism", Avg("professionalismScore")),
           Entry("relevance", Avg("relevanceScore")) >>
      sortedAreas == SortDescending(avgMetrics)
  IN  IF totalSessions = 0
      THEN [ totalSessions    |-> 0,
             averageScore     |-> 0,
             improvementTrend |-> 0,
             strongestAreas   |-> << >>,
             weakestAreas     |-> << >>,
             recentSessions   |-> << >> ]
      ELSE [ totalSessions    |-> totalSessions,
             averageScore     |-> RoundFrac(averageScore),
             improvementTrend |-> RoundFrac(improvementTrend),
             strongestAreas   |-> EntryNames(slice(sortedAreas, 0, 2)),
             weakestAreas     |-> EntryNames(sliceFrom(sortedAreas, 0 - 2)),
             recentSessions   |-> Reverse(sliceFrom(sessions, 0 - 5)) ]

(***************************************************************************)
(* The enhanced tracker (services/enhancedProgressService).                *)
(***************************************************************************)
maxSessions == 100

\* the optional properties of a DetailedSession
DetailedOptional == {"audioUrl"}

\* EnhancedProgressService.getAllSessions
getAllDetailedSessions(st) ==
  LET data == st[EnhancedKey]
  IN  IF data.kind \in {"absent", "empty"}
      THEN [ threw |-> FALSE, value |-> << >> ]
      ELSE LET parsed == JSONparse(data)
           IN  IF parsed.threw
               THEN [ threw |-> FALSE, value |-> << >> ]
               ELSE [ threw |-> FALSE, value |-> parsed.value ]

\* { ...session, id, date }
NewDetailedSession(session, id) == [ id |-> id, date |-> id ] @@ session

\* existingSessions with no limit applied, against which the capacity is
\* checked
KeepAllSessions(sessions) == sessions

\* the sessions kept: existingSessions.slice(-this.maxSessions)
LimitDetailedSessions(sessions) == sliceFrom(sessions, 0 - maxSessions)

\* an append that leaves out a session whose transcript the log already
\* holds, against which the record of every analysis is checked
saveDetailedSessionOncePerTranscript(st, session, id, quotaExceeded) ==
  LET existingSessions == getAllDetailedSessions(st).value
      newSession       == NewDetailedSession(session, id)
      known == \E i \in 1..Len(existingSessions) :
                 existingSessions[i].transcript = session.transcript
      limitedSessions  ==
        LimitDetailedSessions(IF known THEN existingSessions
                              ELSE Append(existingSessions, newSession))
      written == setItem(st, EnhancedKey,
                         JSONstringify(limitedSessions, DetailedOptional),
                         quotaExceeded)
  IN  [ threw |-> written.threw, store |-> written.store, pushed |-> newSession ]

\* EnhancedProgressService.saveDetailedSession: the store it leaves, the
\* record it pushed, and whether it threw
saveDetailedSession(st, session, id, quotaExceeded) ==
  LET existingSessions == getAllDetailedSessions(st).value
      newSession       == NewDetailedSession(session, id)
      limitedSessions  == LimitDetailedSessions(Append(existingSessions, newSession))
      written == setItem(st, EnhancedKey,
                         JSONstringify(limitedSessions, DetailedOptional),
                         quotaExceeded)
  IN  [ threw |-> written.threw, store |-> written.store, pushed |-> newSession ]

\* An append up to its write, for either tracker: the log is read, the new
\* record made and pushed, and the list cut to the tracker's capacity.
ReadForAppend(st, key, session, id) ==
  IF key = BasicKey
  THEN LET newSession == NewSession(session, id)
       IN  [ pushed |-> newSession,
             limitedSessions |->
               LimitSessions(Append(getAllSessions(st).value, newSession)) ]
  ELSE LET newSession == NewDetailedSession(session, id)
       IN  [ pushed |-> newSession,
             limitedSessions |->
               LimitDetailedSessions(Append(getAllDetailedSessions(st).value,
                                            newSession)) ]

\* a write that patches the stored log with the new record instead of
\* replacing it, against which the overwrite is checked
WritePatched(st, key, limitedSessions, quotaExceeded) ==
  LET stored == IF key = BasicKey THEN getAllSessions(st).value
                ELSE getAllDetailedSessions(st).value
  IN  setItem(st, key,
              JSONstringify(Append(stored, limitedSessions[Len(limitedSessions)]),
                            IF key = BasicKey THEN SessionOptional
                            ELSE DetailedOptional),
              quotaExceeded)

\* The write that ends an append:
\* localStorage.setItem(this.storageKey, JSON.stringify(limitedSessions))
WriteLog(st, key, limitedSessions, quotaExceeded) ==
  setItem(st, key,
          JSONstringify(limitedSessions,
                        IF key = BasicKey THEN SessionOptional ELSE DetailedOptional),
          quotaExceeded)

\* a clear that removes nothing, against which clearAllData is checked
clearNothing(st) == st

\* EnhancedProgressService.clearAllData
clearAllDetailedData(st) == removeItem(st, EnhancedKey)

(***************************************************************************)
(* Statistics of the enhanced tracker.                                     *)
(***************************************************************************)
\* calculateAverageScore, of a non-empty array
calculateAverageScore(sessions) ==
  RoundFrac(Frac(Sum(OverallScores(sessions)), Len(sessions)))

calculateImprovementTrend(sessions) ==
  IF Len(sessions) < 4 THEN 0
  ELSE LET quarterPoint    == Len(sessions) \div 4
           recentSessions  == sliceFrom(sessions, 0 - quarterPoint)
           earlierSessions == slice(sessions, quarterPoint, quarterPoint * 2)
           recentAvg       == calculateAverageScore(recentSessions)
           earlierAvg      == calculateAverageScore(earlierSessions)
       IN  NumSub(recentAvg, earlierAvg)

skills ==
  << "confidenceScore", "clarityScore", "professionalismScore", "relevanceScore",
     "emotionalIntelligence", "structureScore" >>

\* the session's overall score read in place of the skill's, against which
\* the breakdown is checked
SkillScoreOverall(session, skill) == session.overallScore

\* s.detailedMetrics[skill] || 0
SkillScore(session, skill) == OrNumber(session.detailedMetrics[skill], 0)

\* calculateSkillBreakdown: the entries of the breakdown object, in key order
calculateSkillBreakdown(sessions) ==
  LET Breakdown(skill) ==
        LET scores     == [i \in 1..Len(sessions) |-> SkillScore(sessions[i], skill)]
            current    == IF Len(scores) > 0 THEN scores[Len(scores)] ELSE 0
            recent     == sliceFrom(scores, 0 - 5)
            earlier    == slice(scores, 0 - 10, 0 - 5)
            recentAvg  == MeanOrZero(recent)
            earlierAvg == MeanOrZero(earlier)
        IN  Entry(skill,
                  [ current        |-> Round(current, 1),
                    trend          |-> RoundFrac(FracSub(recentAvg, earlierAvg)),
                    sessionHistory |-> sliceFrom(scores, 0 - 10) ])
  IN  [k \in 1..Len(skills) |-> Breakdown(skills[k])]

formatSkillName(skill) ==
  CASE skill = "confidenceScore"       -> "Confidence"
    [] skill = "clarityScore"          -> "Clarity"
    [] skill = "professionalismScore"  -> "Professionalism"
    [] skill = "relevanceScore"        -> "Relevance"
    [] skill = "emotionalIntelligence" -> "Emotional Intelligence"
    [] skill = "structureScore"        -> "Response Structure"
    [] OTHER                           -> skill

\* an insertion that puts an entry before the entries of equal current, so
\* that equal entries come out in reverse order; against which the order of
\* ties is checked
RECURSIVE InsertBeforeEqual(_, _)
InsertBeforeEqual(out, e) ==
  IF out = << >> THEN << e >>
  ELSE IF e.value.current <= Head(out).value.current
       THEN << e >> \o out
       ELSE << Head(out) >> \o InsertBeforeEqual(Tail(out), e)

\* the place of entry e in the sorted sequence out, by ascending current
RECURSIVE InsertAscending(_, _)
InsertAscending(out, e) ==
  IF out = << >> THEN << e >>
  ELSE IF e.value.current < Head(out).value.current
       THEN << e >> \o out
       ELSE << Head(out) >> \o InsertAscending(Tail(out), e)

\* entries.sort(([,a], [,b]) => a.current - b.current)
RECURSIVE SortAscendingFrom(_, _, _)
SortAscendingFrom(entries, i, out) ==
  IF i > Len(entries) THEN out
  ELSE SortAscendingFrom(entries, i + 1, InsertAscending(out, entries[i]))

getRecommendedFocus(skillBreakdown) ==
  LET focus == slice(SortAscendingFrom(skillBreakdown, 1, << >>), 0, 2)
  IN  [i \in 1..Len(focus) |-> formatSkillName(focus[i].name)]

\* the badges with the AI-powered one counted over all sessions, against
\* which the count of AI-powered sessions is checked
calculateAchievementsAnySource(sessions) ==
  LET someExcellent == \E i \in 1..Len(sessions) : sessions[i].overallScore >= 90
  IN  (IF Len(sessions) >= 5 THEN << "Committed Practicer" >> ELSE << >>)
        \o (IF Len(sessions) >= 15 THEN << "Interview Master" >> ELSE << >>)
        \o (IF someExcellent THEN << "Excellence Achieved" >> ELSE << >>)
        \o (IF Len(sessions) >= 10 THEN << "AI-Powered Learner" >> ELSE << >>)

\* the badges with each of the last five scores compared to itself by >=,
\* against which the outcome of the comparison by > is checked
calculateAchievementsReflexive(sessions) ==
  LET lastFive == sliceFrom(sessions, 0 - 5)
      someExcellent == \E i \in 1..Len(sessions) : sessions[i].overallScore >= 90
      everyImproved ==
        \A i \in 1..Len(lastFive) : lastFive[i].overallScore >= lastFive[i].overallScore
      aiPoweredCount == Cardinality({i \in 1..Len(sessions) : sessions[i].aiPowered})
  IN  (IF Len(sessions) >= 5 THEN << "Committed Practicer" >> ELSE << >>)
        \o (IF Len(sessions) >= 15 THEN << "Interview Master" >> ELSE << >>)
        \o (IF someExcellent THEN << "Excellence Achieved" >> ELSE << >>)
        \o (IF everyImproved THEN << "Consistent Improver" >> ELSE << >>)
        \o (IF aiPoweredCount >= 10 THEN << "AI-Powered Learner" >> ELSE << >>)

calculateAchievements(sessions) ==
  LET lastFive == sliceFrom(sessions, 0 - 5)
      \* sessions.some(s => s.overallScore >= 90)
      someExcellent == \E i \in 1..Len(sessions) : sessions[i].overallScore >= 90
      \* sessions.slice(-5).every(s => s.overallScore > s.overallScore)
      everyImproved ==
        \A i \in 1..Len(lastFive) : lastFive[i].overallScore > lastFive[i].overallScore
      \* sessions.filter(s => s.aiPowered).length
      aiPoweredCount == Cardinality({i \in 1..Len(sessions) : sessions[i].aiPowered})
  IN  (IF Len(sessions) >= 5 THEN << "Committed Practicer" >> ELSE << >>)
        \o (IF Len(sessions) >= 15 THEN << "Interview Master" >> ELSE << >>)
        \o (IF someExcellent THEN << "Excellence Achieved" >> ELSE << >>)
        \o (IF everyImproved
            THEN << "Consistent Improver" >> ELSE << >>)
        \o (IF aiPoweredCount >= 10
            THEN << "AI-Powered Learner" >> ELSE << >>)

\* session.questionType || 'General'
TypeOf(session) == OrString(Prop(session, "questionType"), "General")

\* getSessionsByType: the count of each type that occurs
getSessionsByType(sessions) ==
  LET OfType(t) == Cardinality({i \in 1..Len(sessions) : TypeOf(sessions[i]) = t})
  IN  [t \in {TypeOf(sessions[i]) : i \in 1..Len(sessions)} |-> OfType(t)]

getProgressMilestones(sessions) ==
  LET avgScore     == calculateAverageScore(sessions)
      sessionCount == Len(sessions)
  IN  [ reached |->
          (IF sessionCount >= 1 THEN << "First Interview Practice" >> ELSE << >>)
            \o (IF sessionCount >= 5 THEN << "Regular Practicer" >> ELSE << >>)
            \o (IF sessionCount >= 10 THEN << "Dedicated Learner" >> ELSE << >>)
            \o (IF avgScore >= 70 THEN << "Competent Interviewer" >> ELSE << >>)
            \o (IF avgScore >= 80 THEN << "Strong Interviewer" >> ELSE << >>)
            \o (IF avgScore >= 90 THEN << "Expert Interviewer" >> ELSE << >>),
        upcoming |->
          (IF sessionCount < 5
           THEN << "Complete " \o ToString(5 - sessionCount) \o " more sessions" >>
           ELSE << >>)
            \o (IF sessionCount < 10 THEN << "Reach 10 total sessions" >> ELSE << >>)
            \o (IF avgScore < 70 THEN << "Achieve 70% average score" >> ELSE << >>)
            \o (IF avgScore < 80 THEN << "Achieve 80% average score" >> ELSE << >>)
            \o (IF avgScore < 90 THEN << "Achieve 90% average score" >> ELSE << >>) ]

\* empty statistics without the first-session prompt, against which
\* getEmptyStats is checked
getEmptyStatsNoPrompt ==
  [ totalSessions      |-> 0,
    averageScore       |-> 0,
    improvementTrend   |-> 0,
    skillBreakdown     |-> << >>,
    recommendedFocus   |-> << >>,
    achievementBadges  |-> << >>,
    recentSessions     |-> << >>,
    sessionsByType     |-> << >>,
    progressMilestones |-> [ reached |-> << >>, upcoming |-> << >> ] ]

\* EnhancedProgressService.getEmptyStats
getEmptyStats ==
  [ totalSessions      |-> 0,
    averageScore       |-> 0,
    improvementTrend   |-> 0,
    skillBreakdown     |-> << >>,
    recommendedFocus   |-> << >>,
    achievementBadges  |-> << >>,
    recentSessions     |-> << >>,
    sessionsByType     |-> << >>,
    progressMilestones |->
      [ reached |-> << >>, upcoming |-> << "Complete your first interview practice" >> ] ]

\* EnhancedProgressService.getAdvancedStats
getAdvancedStats(st) ==
  LET sessions == getAllDetailedSessions(st).value
      skillBreakdown == calculateSkillBreakdown(sessions)
  IN  IF Len(sessions) = 0
      THEN getEmptyStats
      ELSE [ totalSessions      |-> Len(sessions),
             averageScore       |-> calculateAverageScore(sessions),
             improvementTrend   |-> calculateImprovementTrend(sessions),
             skillBreakdown     |-> skillBreakdown,
             recommendedFocus   |-> getRecommendedFocus(skillBreakdown),
             achievementBadges  |-> calculateAchievements(sessions),
             recentSessions     |-> Reverse(sliceFrom(sessions, 0 - 10)),
             sessionsByType     |-> getSessionsByType(sessions),
             progressMilestones |-> getProgressMilestones(sessions) ]

\* EnhancedProgressService.exportProgressData: the object whose JSON text is
\* returned, but for exportDate
exportProgressData(st) ==
  LET sessions == getAllDetailedSessions(st).value
      stats    == getAdvancedStats(st)
  IN  [ appName          |-> "Interview Intelligence",
        version          |-> "1.0.0",
        privacy          |->
          "This data was generated locally and contains no server-stored information",
        summary          |-> stats,
        detailedSessions |-> sessions ]

(***************************************************************************)
(* handleAnalyze of App.tsx: from an analysis result to a session.         *)
(***************************************************************************)
\* the mean of the four scores cut to an integer instead of rounded, against
\* which the rounding of the overall score is checked
overallScoreTruncated(metrics) ==
  (metrics.confidenceScore + metrics.clarityScore
     + metrics.professionalismScore + metrics.relevanceScore) \div 4

\* Math.round((confidenceScore + clarityScore + professionalismScore +
\* relevanceScore) / 4)
overallScoreOf(metrics) ==
  Round(metrics.confidenceScore + metrics.clarityScore
          + metrics.professionalismScore + metrics.relevanceScore, 4)

\* a session whose detailedMetrics keep the result's emotionalIntelligence and
\* structureScore where it has them, against which the two fixed values are
\* checked
DetailedSessionKeepingMetrics(analysisResult, qt) ==
  [ duration         |-> analysisResult.duration,
    transcript       |-> analysisResult.transcript,
    questionType     |-> OrString(qt, "General"),
    overallScore     |-> overallScoreOf(analysisResult.metrics),
    detailedMetrics  |-> analysisResult.metrics
                           @@ [ emotionalIntelligence |-> 75, structureScore |-> 70 ],
    feedback         |-> analysisResult.feedback,
    detailedAnalysis |-> [ speechPattern        |-> "Analysis in progress...",
                           contentQuality       |-> "Analysis in progress...",
                           professionalPresence |-> "Analysis in progress...",
                           improvementPlan      |-> << >> ],
    aiPowered        |-> analysisResult.aiPowered ]

\* the argument of saveDetailedSession; in detailedMetrics the two fixed
\* values come after ...analysisResult.metrics and so replace the result's
DetailedSessionOf(analysisResult, qt) ==
  [ duration         |-> analysisResult.duration,
    transcript       |-> analysisResult.transcript,
    questionType     |-> OrString(qt, "General"),
    overallScore     |-> overallScoreOf(analysisResult.metrics),
    detailedMetrics  |-> [ emotionalIntelligence |-> 75, structureScore |-> 70 ]
                           @@ analysisResult.metrics,
    feedback         |-> analysisResult.feedback,
    detailedAnalysis |-> [ speechPattern        |-> "Analysis in progress...",
                           contentQuality       |-> "Analysis in progress...",
                           professionalPresence |-> "Analysis in progress...",
                           improvementPlan      |-> << >> ],
    aiPowered        |-> analysisResult.aiPowered ]

(***************************************************************************)
(* The inputs explored.                                                    *)
(***************************************************************************)
RECURSIVE Repeat(_, _)
Repeat(s, n) == IF n = 0 THEN "" ELSE s \o Repeat(s, n - 1)

\* the phrases transcripts are made of: whitespace only, fillers, an example
\* with an action word and a number in a sentence of two commas, casual words,
\* interrogatives, a plain clause, and 51 words in short sentences
Phrases ==
  << "um so like ",
     "For example, I Led a team of 7 people, and we achieved results. ",
     "cool stuff! ",
     " \t\n",
     "why? how? ",
     "we went to the new site and it worked ",
     Repeat("we go on. ", 17) >>

RECURSIVE Concat(_)
Concat(parts) == IF parts = << >> THEN "" ELSE Head(parts) \o Concat(Tail(parts))

\* the choices of at most MaxParts phrases, repeats allowed, each written in
\* the order of the list
PhraseChoices ==
  UNION { { pick \in [1..n -> 1..Len(Phrases)] :
              \A i \in 1..(n - 1) : pick[i] <= pick[i + 1] } : n \in 0..MaxParts }

Transcripts ==
  { Concat([i \in 1..Len(pick) |-> Phrases[pick[i]]]) : pick \in PhraseChoices }

Durations == {0, 90}
QuestionTypes == {Undefined, "Software Engineer"}
ApiKeys == {Undefined, "your_openai_api_key_here", "sk-key"}

NoResult == [ pending |-> TRUE ]

\* the sessions handed to ProgressTrackingService.saveSession
SessionTied ==
  [ duration     |-> 60,
    transcript   |-> "I led the team.",
    overallScore |-> 70,
    metrics      |-> [ wordsPerMinute |-> 4, fillerWords |-> 0,
                       confidenceScore |-> 70, clarityScore |-> 70,
                       professionalismScore |-> 70, relevanceScore |-> 70 ],
    aiPowered    |-> FALSE,
    questionType |-> Undefined ]

SessionMixed ==
  [ duration     |-> 120,
    transcript   |-> "For example, we shipped 3 projects.",
    overallScore |-> 71,
    metrics      |-> [ wordsPerMinute |-> 3, fillerWords |-> 1,
                       confidenceScore |-> 90, clarityScore |-> 60,
                       professionalismScore |-> 75, relevanceScore |-> 60 ],
    aiPowered    |-> TRUE,
    questionType |-> "Software Engineer" ]

SessionInputs == {SessionTied, SessionMixed}
DefaultSession == SessionTied

\* the sessions handed to EnhancedProgressService.saveDetailedSession
DetailedRuleBased ==
  [ duration         |-> 60,
    transcript       |-> "I led the team.",
    questionType     |-> "General",
    overallScore     |-> 70,
    detailedMetrics  |-> [ wordsPerMinute |-> 4, fillerWords |-> 0,
                           confidenceScore |-> 70, clarityScore |-> 70,
                           professionalismScore |-> 85, relevanceScore |-> 55,
                           emotionalIntelligence |-> 75, structureScore |-> 70 ],
    feedback         |-> [ strengths    |-> << "Concise and focused response" >>,
                           improvements |-> << "Provide more detailed responses" >>,
                           suggestions  |-> << "Record practice sessions" >> ],
    detailedAnalysis |-> [ speechPattern        |-> "Analysis in progress...",
                           contentQuality       |-> "Analysis in progress...",
                           professionalPresence |-> "Analysis in progress...",
                           improvementPlan      |-> << >> ],
    aiPowered        |-> FALSE,
    audioUrl         |-> Undefined ]

DetailedAiPowered ==
  [ duration         |-> 120,
    transcript       |-> "For example, we shipped 3 projects.",
    questionType     |-> "Software Engineer",
    overallScore     |-> 92,
    detailedMetrics  |-> [ wordsPerMinute |-> 3, fillerWords |-> 1,
                           confidenceScore |-> 95, clarityScore |-> 90,
                           professionalismScore |-> 93, relevanceScore |-> 90,
                           emotionalIntelligence |-> 75, structureScore |-> 70 ],
    feedback         |-> [ strengths    |-> << "Clear structure" >>,
                           improvements |-> << "Quantify the outcome" >>,
                           suggestions  |-> << "Use the STAR method" >>,
                           specificTips |-> << "Open with the result" >> ],
    detailedAnalysis |-> [ speechPattern        |-> "Analysis in progress...",
                           contentQuality       |-> "Analysis in progress...",
                           professionalPresence |-> "Analysis in progress...",
                           improvementPlan      |-> << >> ],
    aiPowered        |-> TRUE,
    audioUrl         |-> "blob:recording" ]

DetailedInputs == {DetailedRuleBased, DetailedAiPowered}
DefaultDetailed == DetailedRuleBased


NoCall == [ op |-> "none" ]

\* the record of a completed append: the tracker, whether the call threw, and
\* for an append that returned the session it was given
SaveCall(key, threw, session) ==
  IF threw THEN [ op |-> "save", key |-> key, threw |-> TRUE ]
  ELSE [ op |-> "save", key |-> key, threw |-> FALSE, arg |-> session ]

\* the tabs of one origin, each running the application on the same
\* localStorage
Tabs == {"first", "second"}

\* no tab is in an append: no id made, no step taken
TabsIdle ==
  [ ids    |-> << >>,
    steps  |-> 0,
    writer |-> [t \in Tabs |-> [ pc |-> "idle" ]] ]

\* no transcription is under way
SttIdle == [ pc |-> "idle" ]

TrackerInit ==
  /\ store = [k \in Keys |-> Absent]
  /\ history = [k \in Keys |-> << >>]
  /\ call = NoCall
  /\ tabs = TabsIdle
  /\ stt = SttIdle

(***************************************************************************)
(* The engine's specification: one handleAnalyze run on each input.        *)
(***************************************************************************)
EngineInit ==
  /\ transcript \in Transcripts
  /\ duration \in Durations
  /\ questionType \in QuestionTypes
  /\ apiKey \in ApiKeys
  /\ result = NoResult
  /\ aiCalls = 0
  /\ runs = << "pending" >>
  /\ TrackerInit

\* the replies the AI backend may give to a call; when analyzeInterview makes
\* no request (a blank transcript, no configured key) there is none to draw
RepliesTo(t, key) ==
  IF IsBlank(t) \/ ~isConfigured(key) THEN { [ failed |-> TRUE ] } ELSE AIReplies

\* the invocation under way, the last of runs, came to its end
Ended(rs, how) == [rs EXCEPT ![Len(rs)] = how]

\* an invocation of handleAnalyze is under way
Running(rs) == rs # << >> /\ rs[Len(rs)] = "pending"

\* handleAnalyze awaits analyzeInterview(transcript, duration, questionType)
AnalyzeInterview ==
  /\ Running(runs)
  /\ result = NoResult
  /\ \E reply \in RepliesTo(transcript, apiKey) :
       LET done == analyzeInterview(transcript, duration, questionType, apiKey, reply)
       IN  /\ result' = [ threw |-> done.threw, value |-> done.value ]
           /\ aiCalls' = aiCalls + (IF done.calledAI THEN 1 ELSE 0)
           /\ call' = [ op |-> "analyze", calledAI |-> done.calledAI,
                        aiFailed |-> reply.failed ]
           /\ runs' = IF done.threw THEN Ended(runs, "threw") ELSE runs
  /\ UNCHANGED <<transcript, duration, questionType, apiKey>>
  /\ UNCHANGED <<store, history, tabs, stt>>

\* handleAnalyze, after the analysis arrived: the overall score is computed and
\* the session handed to enhancedProgressService.saveDetailedSession
SaveAnalysis ==
  /\ call.op = "analyze"
  /\ ~result.threw
  /\ \E quotaExceeded \in BOOLEAN :
       LET session == DetailedSessionOf(result.value, questionType)
           done == saveDetailedSession(store, session,
                                       generateId(history[EnhancedKey]), quotaExceeded)
       IN  /\ store' = done.store
           /\ history' = IF done.threw THEN history
                         ELSE [history EXCEPT ![EnhancedKey] = Append(@, done.pushed)]
           /\ call' = SaveCall(EnhancedKey, done.threw, session)
           /\ runs' = Ended(runs, IF done.threw THEN "rejected" ELSE "saved")
  /\ UNCHANGED <<transcript, duration, questionType, apiKey, result, aiCalls>>
  /\ UNCHANGED <<tabs, stt>>

EngineNext == AnalyzeInterview \/ SaveAnalysis

SpecEngine == EngineInit /\ [][EngineNext]_vars

(***************************************************************************)
(* The trackers' specification: appends, clears and damage to the stored   *)
(* items, on both keys.                                                    *)
(***************************************************************************)
Cap(key) == IF key = BasicKey THEN BasicCap ELSE maxSessions
OtherKey(key) == IF key = BasicKey THEN EnhancedKey ELSE BasicKey

\* the log a tracker reads from the store
Log(key) ==
  IF key = BasicKey THEN getAllSessions(store).value
  ELSE getAllDetailedSessions(store).value

\* clears, damage and varied appends are explored on one key while the other
\* log is short
OtherIsShort(key) == Len(history[OtherKey(key)]) <= MaxVaried

\* the record was made from this session
MadeFrom(record, session) ==
  record = [ id |-> record.id, date |-> record.date ] @@ session

\* the session continues the log's run of one input: every record appended
\* after the first MaxVaried was made from it, and for an input other than the
\* default the first MaxVaried as well
ContinuesRun(key, session, isDefault) ==
  \A i \in 1..Len(history[key]) :
    (i > MaxVaried \/ ~isDefault) => MadeFrom(history[key][i], session)

\* The appends explored. While a log has seen fewer than MaxVaried appends and
\* the other log is short, any input is appended to it. A log is taken further,
\* up to MaxOverflow appends past its capacity, while the other tracker's key
\* is absent, with the default input after the first MaxVaried appends, or
\* with the one input all its appends had.
Explored(key, session, isDefault) ==
  LET n == Len(history[key])
  IN  \/ n < MaxVaried /\ OtherIsShort(key)
      \/ /\ n < Cap(key) + MaxOverflow
         /\ ContinuesRun(key, session, isDefault)
         /\ store[OtherKey(key)] = Absent

EngineIdle ==
  /\ transcript = ""
  /\ duration = 0
  /\ questionType = Undefined
  /\ apiKey = Undefined
  /\ result = NoResult
  /\ aiCalls = 0
  /\ runs = << >>

Init == EngineIdle /\ TrackerInit

\* a caller appends a session to the basic log
SaveSession ==
  /\ \E session \in SessionInputs, quotaExceeded \in BOOLEAN :
       /\ Explored(BasicKey, session, session = DefaultSession)
       /\ LET done == saveSession(store, session, generateId(history[BasicKey]),
                                  quotaExceeded)
          IN  /\ store' = done.store
              /\ history' = IF done.threw THEN history
                            ELSE [history EXCEPT ![BasicKey] = Append(@, done.pushed)]
              /\ call' = SaveCall(BasicKey, done.threw, session)
  /\ UNCHANGED <<engineVars, tabs, stt>>

\* a caller appends a session to the enhanced log
SaveDetailedSession ==
  /\ \E session \in DetailedInputs, quotaExceeded \in BOOLEAN :
       /\ Explored(EnhancedKey, session, session = DefaultDetailed)
       /\ LET done == saveDetailedSession(store, session,
                                          generateId(history[EnhancedKey]),
                                          quotaExceeded)
          IN  /\ store' = done.store
              /\ history' = IF done.threw THEN history
                            ELSE [history EXCEPT ![EnhancedKey] = Append(@, done.pushed)]
              /\ call' = SaveCall(EnhancedKey, done.threw, session)
  /\ UNCHANGED <<engineVars, tabs, stt>>

\* the user clears the basic log
ClearAllData ==
  /\ OtherIsShort(BasicKey)
  /\ store' = clearAllData(store)
  /\ history' = [history EXCEPT ![BasicKey] = << >>]
  /\ call' = [ op |-> "clear", key |-> BasicKey, threw |-> FALSE,
               before |-> Len(Log(BasicKey)) ]
  /\ UNCHANGED <<engineVars, tabs, stt>>

\* the user clears the enhanced log
ClearAllDetailedData ==
  /\ OtherIsShort(EnhancedKey)
  /\ store' = clearAllDetailedData(store)
  /\ history' = [history EXCEPT ![EnhancedKey] = << >>]
  /\ call' = [ op |-> "clear", key |-> EnhancedKey, threw |-> FALSE,
               before |-> Len(Log(EnhancedKey)) ]
  /\ UNCHANGED <<engineVars, tabs, stt>>

\* something outside the trackers leaves text under a key that is not the
\* JSON of a log
Damage ==
  /\ \E key \in Keys, item \in {EmptyText, Garbage} :
       /\ OtherIsShort(key)
       /\ store' = [store EXCEPT ![key] = item]
       /\ history' = [history EXCEPT ![key] = << >>]
       /\ call' = NoCall
  /\ UNCHANGED <<engineVars, tabs, stt>>

Next ==
  \/ SaveSession
  \/ SaveDetailedSession
  \/ ClearAllData
  \/ ClearAllDetailedData
  \/ Damage

Spec == Init /\ [][Next]_vars

(***************************************************************************)
(* handleAnalyze and handleReanalyze of App.tsx: an analysis and its       *)
(* re-analyses, each run to its end before the next is started.            *)
(***************************************************************************)
\* the audioData handed to handleAnalyze; a missing duration is written 0,
\* which duration || 0 reads the same
AudioData ==
  { [ transcript |-> t, duration |-> d, questionType |-> qt ] :
      t \in {Undefined, Phrases[2]}, d \in Durations, qt \in QuestionTypes }

\* no invocation of handleAnalyze is under way
NoneRunning == ~Running(runs)

ReanalyzeInit ==
  /\ EngineIdle
  /\ TrackerInit

\* handleAnalyze up to its await: transcript and duration get their defaults,
\* the input is kept as lastAnalysisInput, and analyzeInterview is called
HandleAnalyze ==
  /\ runs = << >>
  /\ \E audioData \in AudioData, key \in ApiKeys :
       /\ transcript' = OrString(audioData.transcript, "")
       /\ duration' = OrNumber(audioData.duration, 0)
       /\ questionType' = audioData.questionType
       /\ apiKey' = key
  /\ result' = NoResult
  /\ call' = NoCall
  /\ runs' = Append(runs, "pending")
  /\ UNCHANGED <<aiCalls, store, history, tabs, stt>>

\* handleReanalyze: without a lastAnalysisInput it returns; with one it calls
\* handleAnalyze on the input kept
HandleReanalyze ==
  /\ NoneRunning
  /\ Len(runs) < MaxAnalyses
  /\ runs # << >>
  /\ result' = NoResult
  /\ call' = NoCall
  /\ runs' = Append(runs, "pending")
  /\ UNCHANGED <<transcript, duration, questionType, apiKey, aiCalls>>
  /\ UNCHANGED <<store, history, tabs, stt>>

ReanalyzeNext ==
  \/ HandleAnalyze
  \/ HandleReanalyze
  \/ AnalyzeInterview
  \/ SaveAnalysis

SpecReanalyze == ReanalyzeInit /\ [][ReanalyzeNext]_vars

(***************************************************************************)
(* The trackers with their reading operations: the specification above     *)
(* and the calls that read a log, compute statistics or export.            *)
(***************************************************************************)
\* the reading operations of a tracker
ReadCalls(key) ==
  IF key = BasicKey THEN {"getAllSessions", "getProgressStats"}
  ELSE {"getAllSessions", "getAdvancedStats", "exportProgressData"}

\* what a reading operation returns
ReadValue(st, key, fn) ==
  IF key = BasicKey
  THEN IF fn = "getAllSessions" THEN getAllSessions(st).value
       ELSE getProgressStats(st)
  ELSE IF fn = "getAllSessions" THEN getAllDetailedSessions(st).value
       ELSE IF fn = "getAdvancedStats" THEN getAdvancedStats(st)
       ELSE exportProgressData(st)

\* a caller reads a log, its statistics or its export; none of these writes
\* to localStorage
GetData ==
  /\ call.op # "read"
  /\ \E key \in Keys :
       \E fn \in ReadCalls(key) :
         call' = [ op |-> "read", key |-> key, fn |-> fn,
                 value |-> ReadValue(store, key, fn) ]
  /\ UNCHANGED <<engineVars, store, history, tabs, stt>>

ReadsNext == Next \/ GetData

SpecReads == Init /\ [][ReadsNext]_vars

(***************************************************************************)
(* Two tabs appending: each append is a read of the log followed, possibly *)
(* after steps of the other tab, by the write of the whole list.           *)
(***************************************************************************)
InputsOf(key) == IF key = BasicKey THEN SessionInputs ELSE DetailedInputs

\* a tab enters saveSession or saveDetailedSession and runs it up to the write
TabRead ==
  /\ Len(tabs.ids) < MaxTabAppends
  /\ \E t \in Tabs, key \in Keys :
       /\ tabs.writer[t].pc # "read"
       /\ \E session \in InputsOf(key) :
            LET id   == generateId(tabs.ids)
                read == ReadForAppend(store, key, session, id)
            IN  tabs' = [ ids    |-> Append(tabs.ids, id),
                          steps  |-> tabs.steps + 1,
                          writer |-> [tabs.writer EXCEPT ![t] =
                            [ pc              |-> "read",
                              key             |-> key,
                              arg             |-> session,
                              pushed          |-> read.pushed,
                              limitedSessions |-> read.limitedSessions,
                              readAt          |-> tabs.steps + 1 ]] ]
  /\ UNCHANGED <<engineVars, store, history, call, stt>>

\* a tab that has read writes its list and leaves the append
TabWrite ==
  /\ \E t \in Tabs, quotaExceeded \in BOOLEAN :
       /\ tabs.writer[t].pc = "read"
       /\ LET w       == tabs.writer[t]
              written == WriteLog(store, w.key, w.limitedSessions, quotaExceeded)
          IN  /\ store' = written.store
              /\ history' = IF written.threw THEN history
                            ELSE [history EXCEPT ![w.key] = Append(@, w.pushed)]
              /\ call' = SaveCall(w.key, written.threw, w.arg)
              /\ tabs' = [ ids    |-> tabs.ids,
                           steps  |-> tabs.steps + 1,
                           writer |-> [tabs.writer EXCEPT ![t] =
                             [ pc              |-> "done",
                               key             |-> w.key,
                               arg             |-> w.arg,
                               pushed          |-> w.pushed,
                               limitedSessions |-> w.limitedSessions,
                               readAt          |-> w.readAt,
                               threw           |-> written.threw,
                               wroteAt         |-> tabs.steps + 1 ]] ]
  /\ UNCHANGED <<engineVars, stt>>

TabsNext == TabRead \/ TabWrite

SpecTabs == Init /\ [][TabsNext]_vars

(***************************************************************************)
(* speechService.transcribeAudio: one call, a step for each response it    *)
(* awaits. AI_CONFIG.openai.apiKey is apiKey.                              *)
(***************************************************************************)
AssemblyKeys == {"", "aai-key"}

\* what the Whisper request can come to: the fetch rejected, a response that
\* is not ok, or a result with its text
WhisperReplies ==
  { [ ok |-> FALSE, error |-> "Failed to fetch" ],
    [ ok |-> FALSE, error |-> "Whisper API Error: Unknown error" ],
    [ ok |-> TRUE, text |-> "I led the team." ],
    [ ok |-> TRUE, text |-> "" ] }

\* what an AssemblyAI upload or transcript request can come to
AssemblyReplies == { [ ok |-> TRUE ], [ ok |-> FALSE ], [ ok |-> FALSE, rejected |-> TRUE ] }

\* what a status request can come to: the fetch rejected, or the transcript
\* object with its status
StatusReplies ==
  { [ rejected |-> TRUE ],
    [ rejected |-> FALSE, status |-> "queued", text |-> "", error |-> "" ],
    [ rejected |-> FALSE, status |-> "processing", text |-> "", error |-> "" ],
    [ rejected |-> FALSE, status |-> "completed", text |-> "I led the team.", error |-> "" ],
    [ rejected |-> FALSE, status |-> "completed", text |-> "", error |-> "" ],
    [ rejected |-> FALSE, status |-> "error", text |-> "", error |-> "bad audio" ] }

\* a provider tried whenever the other key is missing, against which the
\* order of the providers is checked
WhisperUnlessAssembly(key, assemblyaiKey) == ~Truthy(assemblyaiKey)

\* if (AI_CONFIG.openai.apiKey): Whisper is tried first
WhisperFirst(key, assemblyaiKey) == Truthy(key)

\* the call returned a transcript, or threw an error
Returned(s, text) == [s EXCEPT !.pc = "returned", !.outcome = text]
Threw(s, error) == [s EXCEPT !.pc = "threw", !.outcome = error]

\* the fallback to AssemblyAI up to its first await: without a key the call
\* throws, with one the upload is sent
FallbackToAssemblyAI(s) ==
  IF ~Truthy(s.assemblyaiKey)
  THEN Threw(s, "No transcription services configured")
  ELSE [s EXCEPT !.pc = "upload", !.uploads = @ + 1]

SttInit ==
  /\ EngineIdle
  /\ store = [k \in Keys |-> Absent]
  /\ history = [k \in Keys |-> << >>]
  /\ call = NoCall
  /\ tabs = TabsIdle
  /\ stt = SttIdle

\* the component calls speechService.transcribeAudio(file); the call runs to
\* its first await
TranscribeAudio ==
  /\ stt.pc = "idle"
  /\ \E key \in ApiKeys, assemblyaiKey \in AssemblyKeys :
       LET started == [ pc |-> "start", assemblyaiKey |-> assemblyaiKey,
                        whisper |-> "none", assembly |-> "none",
                        whisperCalls |-> 0, uploads |-> 0, requests |-> 0,
                        polls |-> 0, status |-> "", outcome |-> "" ]
       IN  /\ apiKey' = key
           /\ stt' = IF WhisperFirst(key, assemblyaiKey)
                     THEN [started EXCEPT !.pc = "whisper", !.whisper = "pending",
                                          !.whisperCalls = @ + 1]
                     ELSE FallbackToAssemblyAI(started)
  /\ UNCHANGED <<transcript, duration, questionType, result, aiCalls, runs>>
  /\ UNCHANGED <<store, history, call, tabs>>

\* whisperService.transcribeAudio settles: its text is returned, or its error
\* is caught and AssemblyAI is tried
WhisperSettles ==
  /\ stt.pc = "whisper"
  /\ \E reply \in WhisperReplies :
       stt' = IF reply.ok
              THEN Returned([stt EXCEPT !.whisper = "ok"],
                            OrString(reply.text, "No transcription available"))
              ELSE FallbackToAssemblyAI([stt EXCEPT !.whisper = "failed"])
  /\ UNCHANGED <<engineVars, store, history, call, tabs>>

\* the upload settles
UploadSettles ==
  /\ stt.pc = "upload"
  /\ \E reply \in AssemblyReplies :
       stt' = IF reply.ok
              THEN [stt EXCEPT !.pc = "request", !.requests = @ + 1]
              ELSE Threw([stt EXCEPT !.assembly = "failed"],
                         IF "rejected" \in DOMAIN reply THEN "Failed to fetch"
                         ELSE "Failed to upload audio file")
  /\ UNCHANGED <<engineVars, store, history, call, tabs>>

\* the transcript request settles
RequestSettles ==
  /\ stt.pc = "request"
  /\ \E reply \in AssemblyReplies :
       stt' = IF reply.ok
              THEN [stt EXCEPT !.pc = "poll", !.polls = Min(@ + 1, MaxPolls)]
              ELSE Threw([stt EXCEPT !.assembly = "failed"],
                         IF "rejected" \in DOMAIN reply THEN "Failed to fetch"
                         ELSE "Failed to request transcription")
  /\ UNCHANGED <<engineVars, store, history, call, tabs>>

\* a status request settles: the loop returns on completed, throws on error,
\* and otherwise waits
StatusSettles ==
  /\ stt.pc = "poll"
  /\ \E reply \in StatusReplies :
       stt' = IF reply.rejected
              THEN Threw([stt EXCEPT !.assembly = "failed"], "Failed to fetch")
              ELSE IF reply.status = "completed"
              THEN Returned([stt EXCEPT !.assembly = "ok", !.status = reply.status],
                            OrString(reply.text, "No transcript available"))
              ELSE IF reply.status = "error"
              THEN Threw([stt EXCEPT !.assembly = "failed", !.status = reply.status],
                         "Transcription failed: " \o reply.error)
              ELSE [stt EXCEPT !.pc = "wait", !.status = reply.status]
  /\ UNCHANGED <<engineVars, store, history, call, tabs>>

\* the 3 seconds of the loop have passed: the status is requested again
WaitEnds ==
  /\ stt.pc = "wait"
  /\ stt' = [stt EXCEPT !.pc = "poll", !.polls = Min(@ + 1, MaxPolls)]
  /\ UNCHANGED <<engineVars, store, history, call, tabs>>

SttNext ==
  \/ TranscribeAudio
  \/ WhisperSettles
  \/ UploadSettles
  \/ RequestSettles
  \/ StatusSettles
  \/ WaitEnds

\* every request settles and the timer fires: a step that can be taken is
\* taken
SpecTranscribe == SttInit /\ [][SttNext]_vars /\ WF_vars(SttNext)

(***************************************************************************)
(* Properties of the engine, checked under SpecEngine.                     *)
(***************************************************************************)
Done == result # NoResult

ScoresOf(metrics) ==
  << metrics.confidenceScore, metrics.clarityScore,
     metrics.professionalismScore, metrics.relevanceScore >>

\* C1: whatever the transcript, duration and questionType, each of the four
\* scores of a result the fallback engine produced (createBasicAnalysis for a
\* non-blank transcript, createFallbackAnalysis for a blank one) is an integer
\* from 0 to 100.
C1_FallbackScoresInRange ==
  (Done /\ ~result.value.aiPowered) =>
    \A i \in 1..4 : ScoresOf(result.value.metrics)[i] \in 0..100

\* C1's case: a rule-based result whose bonuses add up past 100 (examples,
\* action words, numbers, few fillers and mid-length sentences give 110 for
\* confidence), returned at the cap.
C1_Witness ==
  /\ Done
  /\ ~result.value.aiPowered
  /\ includes(transcript, "example")
  /\ result.value.metrics.confidenceScore = 100
  /\ result.value.metrics.relevanceScore = 100

AllWhiteSpace(t) == \A i \in 1..Len(t) : CharAt(t, i) \in WhiteSpace

\* C2: for a transcript that is empty or consists of whitespace only,
\* analyzeInterview returns wordsPerMinute, fillerWords and the four scores
\* all 0 and aiPowered false, whether or not an API key is configured, and the
\* AI client is never called.
C2_BlankTranscriptNoContent ==
  (Done /\ AllWhiteSpace(transcript)) =>
    /\ ~result.threw
    /\ result.value.metrics.wordsPerMinute = 0
    /\ result.value.metrics.fillerWords = 0
    /\ \A i \in 1..4 : ScoresOf(result.value.metrics)[i] = 0
    /\ result.value.aiPowered = FALSE
    /\ aiCalls = 0

\* C2's case: a whitespace-only transcript analysed with an API key configured
C2_Witness ==
  /\ Done
  /\ Len(transcript) > 0
  /\ AllWhiteSpace(transcript)
  /\ isConfigured(apiKey)
  /\ duration > 0

(***************************************************************************)
(* Properties of the trackers, checked under Spec.                         *)
(***************************************************************************)
\* the capacities the trackers are specified with
StatedCap(key) == IF key = BasicKey THEN 50 ELSE 100

\* two records agree on the properties named, a property a record does not
\* have reading as undefined
AgreeOn(a, b, names) == \A name \in names : Prop(a, name) = Prop(b, name)
SameRecord(a, b) == AgreeOn(a, b, DOMAIN a \cup DOMAIN b)

Last(seq) == seq[Len(seq)]

\* C4: for each tracker, N appends after the log was last empty leave
\* min(N, cap) records in getAll (cap 50 for the basic tracker, 100 for the
\* enhanced one), and after an append the last record of getAll equals the
\* record appended in every field but id and date.
C4_AppendThenGetAll ==
  \A key \in Keys :
    /\ Len(Log(key)) = Min(Len(history[key]), StatedCap(key))
    /\ (call.op = "save" /\ call.key = key /\ ~call.threw) =>
         /\ Len(Log(key)) > 0
         /\ AgreeOn(Last(Log(key)), call.arg,
                    (DOMAIN Last(Log(key)) \cup DOMAIN call.arg) \ {"id", "date"})

\* C4's case: the append that takes the enhanced log past its capacity, of a
\* record whose optional audioUrl is undefined
C4_Witness ==
  /\ call.op = "save" /\ call.key = EnhancedKey /\ ~call.threw
  /\ Len(history[EnhancedKey]) = 101
  /\ Len(Log(EnhancedKey)) = 100
  /\ call.arg.audioUrl = Undefined
  /\ "audioUrl" \notin DOMAIN Last(Log(EnhancedKey))

Suffix(seq, n) == SubSeq(seq, Len(seq) - n + 1, Len(seq))

\* C5: eviction is first in, first out: after N appends the log is the last
\* min(N, cap) records appended, in the order of their appends; so appending
\* r1..r(cap+1) leaves exactly r2..r(cap+1).
C5_EvictionIsFifo ==
  \A key \in Keys :
    LET kept == Suffix(history[key], Min(Len(history[key]), StatedCap(key)))
    IN  /\ Len(Log(key)) = Len(kept)
        /\ \A i \in 1..Len(kept) : SameRecord(Log(key)[i], kept[i])

\* C5's case: the basic log after cap + 1 appends starts at the second record
\* appended and ends at the last
C5_Witness ==
  /\ Len(history[BasicKey]) = 51
  /\ Len(Log(BasicKey)) = 50
  /\ Log(BasicKey)[1].id = history[BasicKey][2].id
  /\ Log(BasicKey)[1].id # history[BasicKey][1].id
  /\ Log(BasicKey)[50].id = history[BasicKey][51].id

\* C6: whatever the log held (nothing, some records, a full log), after a
\* clear getAll returns the empty sequence, for both trackers.
C6_ClearEmptiesLog ==
  call.op = "clear" => Log(call.key) = << >>

\* C6's case: a clear of the enhanced log at capacity
C6_Witness ==
  /\ call.op = "clear"
  /\ call.key = EnhancedKey
  /\ call.before = 100
  /\ store[EnhancedKey] = Absent

\* C7: the statistics of an empty log have totalSessions, averageScore and
\* improvementTrend 0 and every list or map empty (strongestAreas,
\* weakestAreas, recentSessions; skillBreakdown, recommendedFocus,
\* achievementBadges, sessionsByType, milestones reached), except that the
\* enhanced tracker's upcoming milestones are exactly the first-session prompt.
C7_EmptyLogStats ==
  /\ Log(BasicKey) = << >> =>
       LET stats == getProgressStats(store)
       IN  /\ stats.totalSessions = 0
           /\ stats.averageScore = 0
           /\ stats.improvementTrend = 0
           /\ stats.strongestAreas = << >>
           /\ stats.weakestAreas = << >>
           /\ stats.recentSessions = << >>
  /\ Log(EnhancedKey) = << >> =>
       LET stats == getAdvancedStats(store)
       IN  /\ stats.totalSessions = 0
           /\ stats.averageScore = 0
           /\ stats.improvementTrend = 0
           /\ stats.skillBreakdown = << >>
           /\ stats.recommendedFocus = << >>
           /\ stats.achievementBadges = << >>
           /\ stats.recentSessions = << >>
           /\ stats.sessionsByType = << >>
           /\ stats.progressMilestones.reached = << >>
           /\ stats.progressMilestones.upcoming =
                << "Complete your first interview practice" >>

\* C7's case: both logs empty, the enhanced one after a clear of stored
\* records and the basic one behind text that does not parse
C7_Witness ==
  /\ call.op = "clear" /\ call.key = EnhancedKey /\ call.before > 0
  /\ store[BasicKey] = Garbage
  /\ getAdvancedStats(store).totalSessions = 0
  /\ getProgressStats(store).totalSessions = 0

AreaNames == {"confidence", "clarity", "professionalism", "relevance"}
Range(seq) == {seq[i] : i \in 1..Len(seq)}

\* C8: when the basic log holds at least one session, strongestAreas and
\* weakestAreas of getProgressStats have exactly 2 names each, every name one
\* of confidence, clarity, professionalism, relevance, and no name in both
\* lists, equal averages included.
C8_StrongestAndWeakest ==
  Len(Log(BasicKey)) >= 1 =>
    LET stats == getProgressStats(store)
    IN  /\ Len(stats.strongestAreas) = 2
        /\ Len(stats.weakestAreas) = 2
        /\ Range(stats.strongestAreas) \subseteq AreaNames
        /\ Range(stats.weakestAreas) \subseteq AreaNames
        /\ Cardinality(Range(stats.strongestAreas)) = 2
        /\ Cardinality(Range(stats.weakestAreas)) = 2
        /\ Range(stats.strongestAreas) \cap Range(stats.weakestAreas) = {}

\* C8's case: a log whose sessions all score 70 on the four metrics, so that
\* the four averages are equal
C8_Witness ==
  /\ Len(Log(BasicKey)) >= 2
  /\ \A i \in 1..Len(Log(BasicKey)) :
       \A j \in 1..4 : ScoresOf(Log(BasicKey)[i].metrics)[j] = 70
  /\ getProgressStats(store).strongestAreas = << "confidence", "clarity" >>
  /\ getProgressStats(store).weakestAreas = << "professionalism", "relevance" >>

\* C9: getAll raises no error to its caller; it returns the empty sequence
\* when the key is absent or its text does not parse, and otherwise the
\* records stored, in the order they were appended (a later append carrying a
\* later ordinal as its id).
C9_GetAllSwallowsFailures ==
  /\ ~getAllSessions(store).threw
  /\ ~getAllDetailedSessions(store).threw
  /\ \A key \in Keys :
       IF store[key].kind = "json"
       THEN /\ Log(key) = store[key].json
            /\ \A i, j \in 1..Len(Log(key)) : i < j => Log(key)[i].id < Log(key)[j].id
       ELSE Log(key) = << >>

\* C9's case: text that does not parse under the basic key while the enhanced
\* key holds several records
C9_Witness ==
  /\ store[BasicKey] = Garbage
  /\ getAllSessions(store) = [ threw |-> FALSE, value |-> << >> ]
  /\ store[EnhancedKey].kind = "json"
  /\ Len(Log(EnhancedKey)) >= 2

\* C10: a write the store rejects during an append never reaches the caller
\* of saveSession or saveDetailedSession as an error.
C10_WriteFailureNeverPropagates ==
  call.op = "save" => ~call.threw

(***************************************************************************)
(* Properties of handleAnalyze, checked under SpecEngine.                  *)
(***************************************************************************)
FourScoreSum(metrics) == ScoresOf(metrics)[1] + ScoresOf(metrics)[2]
                           + ScoresOf(metrics)[3] + ScoresOf(metrics)[4]

\* n is x / 4 rounded to the nearest integer, a half going up
IsRoundedQuarter(n, x) == 4 * n <= x + 2 /\ x + 2 < 4 * n + 4

\* C11: every session record handleAnalyze appended has overallScore equal to
\* the rounded mean of the four scores (confidence, clarity, professionalism,
\* relevance) stored in that same record.
C11_OverallScoreIsRoundedMean ==
  \A i \in 1..Len(Log(EnhancedKey)) :
    IsRoundedQuarter(Log(EnhancedKey)[i].overallScore,
                     FourScoreSum(Log(EnhancedKey)[i].detailedMetrics))

\* C11's case: a stored record whose four scores have a mean ending in .5
\* (85 + 90 + 80 + 75 = 330), stored with the mean rounded up
C11_Witness ==
  /\ call.op = "save" /\ ~call.threw
  /\ Len(Log(EnhancedKey)) = 1
  /\ FourScoreSum(Log(EnhancedKey)[1].detailedMetrics) = 330
  /\ Log(EnhancedKey)[1].overallScore = 83

\* C12: every session record in the log, its scores from the AI backend or
\* from the rule-based engine, has each of the four scores within 0..100, and
\* so its overallScore; a score outside that range in an AI reply is not
\* stored as it came.
C12_StoredScoresClamped ==
  \A i \in 1..Len(Log(EnhancedKey)) :
    /\ \A j \in 1..4 : ScoresOf(Log(EnhancedKey)[i].detailedMetrics)[j] \in 0..100
    /\ Log(EnhancedKey)[i].overallScore \in 0..100

(***************************************************************************)
(* Properties of the statistics, checked under Spec.                       *)
(***************************************************************************)
IsNumber(x) == x # NaN

\* n is p / q rounded to the nearest integer, a half going up (q > 0)
IsRoundedQuotient(n, p, q) == 2 * q * n <= 2 * p + q /\ 2 * p + q < 2 * q * n + 2 * q

\* the total of the n values of seq from place i on
RECURSIVE TotalOf(_, _, _)
TotalOf(seq, i, n) ==
  IF n = 0 THEN 0
  ELSE IF n = 1 THEN seq[i]
  ELSE TotalOf(seq, i, n \div 2) + TotalOf(seq, i + n \div 2, n - n \div 2)

Total(seq) == TotalOf(seq, 1, Len(seq))

\* the values of one skill over the sessions i..j of the enhanced log
SkillValues(skill, i, j) ==
  [k \in 1..(j - i + 1) |-> Log(EnhancedKey)[i + k - 1].detailedMetrics[skill]]

\* the overall scores of the sessions i..j of a log
ScoreValues(key, i, j) == [k \in 1..(j - i + 1) |-> Log(key)[i + k - 1].overallScore]

\* C13: for every log length and both trackers every statistic is a defined
\* number, the mean of an empty slice counting as 0: with one session the
\* basic trend is that session's score less 0, and with at most 5 sessions a
\* skill's trend is the rounded mean of its values less 0.
C13_StatisticsAreDefined ==
  /\ LET stats == getProgressStats(store)
         n     == Len(Log(BasicKey))
     IN  /\ stats.totalSessions = n
         /\ IsNumber(stats.averageScore)
         /\ IsNumber(stats.improvementTrend)
         /\ n = 1 => stats.improvementTrend = Log(BasicKey)[1].overallScore
  /\ LET stats == getAdvancedStats(store)
         n     == Len(Log(EnhancedKey))
     IN  /\ stats.totalSessions = n
         /\ IsNumber(stats.averageScore)
         /\ IsNumber(stats.improvementTrend)
         /\ \A k \in 1..Len(stats.skillBreakdown) :
              LET skill == stats.skillBreakdown[k].name
                  entry == stats.skillBreakdown[k].value
              IN  /\ IsNumber(entry.current)
                  /\ IsNumber(entry.trend)
                  /\ \A h \in 1..Len(entry.sessionHistory) :
                       IsNumber(entry.sessionHistory[h])
                  /\ n <= 5 =>
                       IsRoundedQuotient(entry.trend, Total(SkillValues(skill, 1, n)), n)

\* C13's case: one session in the basic log (an empty first half) and two in
\* the enhanced log (an empty 6th-to-10th-most-recent slice)
C13_Witness ==
  /\ Len(Log(BasicKey)) = 1
  /\ getProgressStats(store).improvementTrend = 71
  /\ Len(Log(EnhancedKey)) = 2
  /\ getAdvancedStats(store).skillBreakdown[1].value.trend > 0

(***************************************************************************)
(* Properties of analyzeInterview's choice of engine, under SpecEngine.    *)
(***************************************************************************)
\* an API key is set and is not the placeholder of the sample configuration
KeyConfigured == apiKey \notin {Undefined, "", "your_openai_api_key_here"}

\* the state right after analyzeInterview returned to handleAnalyze
Analyzed == Done /\ call.op = "analyze"

\* C14: analyzeInterview returns aiPowered = true exactly when the transcript
\* is not blank, the AI backend is configured and the AI call succeeded; with
\* the backend unconfigured or the call failed it returns the rule-based
\* engine's result with aiPowered = false; it never throws.
C14_AiPoweredIffAiSucceeded ==
  Analyzed =>
    /\ ~result.threw
    /\ result.value.aiPowered <=>
         (~AllWhiteSpace(transcript) /\ KeyConfigured /\ ~call.aiFailed)
    /\ (~AllWhiteSpace(transcript) /\ (~KeyConfigured \/ call.aiFailed)) =>
         /\ result.value = createBasicAnalysis(transcript, duration, questionType)
         /\ result.value.aiPowered = FALSE

\* C14's case: a configured backend whose call failed on a non-blank
\* transcript, answered by the rule-based engine
C14_Witness ==
  /\ Analyzed
  /\ ~AllWhiteSpace(transcript)
  /\ KeyConfigured
  /\ call.calledAI /\ call.aiFailed
  /\ aiCalls = 1
  /\ ~result.threw
  /\ result.value.aiPowered = FALSE
  /\ result.value.metrics.confidenceScore = 100

(***************************************************************************)
(* Properties of appends from two tabs, checked under SpecTabs.            *)
(***************************************************************************)
\* the tab has completed an append whose write succeeded
Wrote(t) == tabs.writer[t].pc = "done" /\ ~tabs.writer[t].threw

\* the ids of the records of a tracker's log
IdsIn(key) == { Log(key)[i].id : i \in 1..Len(Log(key)) }

\* C15: an append reads the log and later overwrites it whole. When two tabs
\* append to the same key and the later writer read before the earlier writer
\* wrote, the stored log is the list the later writer wrote and lacks the
\* earlier writer's record; when the later writer started its append right
\* after the earlier writer's write, the records of both are in the log.
C15_LastWriterWins ==
  \A a, b \in Tabs :
    ( /\ Wrote(a) /\ Wrote(b)
      /\ tabs.writer[a].key = tabs.writer[b].key
      /\ tabs.writer[a].wroteAt < tabs.writer[b].wroteAt ) =>
      LET first  == tabs.writer[a]
          second == tabs.writer[b]
          key    == second.key
      IN  /\ second.readAt < first.wroteAt =>
               /\ store[key] = JSONstringify(second.limitedSessions,
                                 IF key = BasicKey THEN SessionOptional
                                 ELSE DetailedOptional)
               /\ second.pushed.id \in IdsIn(key)
               /\ first.pushed.id \notin IdsIn(key)
          /\ second.readAt = first.wroteAt + 1 =>
               /\ first.pushed.id \in IdsIn(key)
               /\ second.pushed.id \in IdsIn(key)

\* C15's case: on a log of one record both tabs read, then both wrote; the
\* log holds two records of the three written
C15_Witness ==
  \E a, b \in Tabs :
    /\ Wrote(a) /\ Wrote(b)
    /\ tabs.writer[a].key = EnhancedKey /\ tabs.writer[b].key = EnhancedKey
    /\ tabs.writer[a].wroteAt < tabs.writer[b].wroteAt
    /\ tabs.writer[b].readAt < tabs.writer[a].wroteAt
    /\ Len(history[EnhancedKey]) = 3
    /\ Len(Log(EnhancedKey)) = 2
    /\ tabs.writer[a].pushed.id \notin IdsIn(EnhancedKey)

(***************************************************************************)
(* Independence of the two trackers, checked under Spec.                   *)
(***************************************************************************)
\* the log and the statistics a tracker computes from a store
LogIn(st, key) ==
  IF key = BasicKey THEN getAllSessions(st).value
  ELSE getAllDetailedSessions(st).value
StatsIn(st, key) ==
  IF key = BasicKey THEN getProgressStats(st) ELSE getAdvancedStats(st)

\* C16: the trackers keep independent logs under distinct keys: an append to
\* or a clear of one tracker leaves the other tracker's stored item, and so
\* what its getAll and its statistics return, as they were.
C16_TrackersIndependent ==
  [][ \A key \in Keys :
        (call'.op \in {"save", "clear"} /\ call'.key = key) =>
          /\ store'[OtherKey(key)] = store[OtherKey(key)]
          /\ LogIn(store', OtherKey(key)) = LogIn(store, OtherKey(key))
          /\ StatsIn(store', OtherKey(key)) = StatsIn(store, OtherKey(key)) ]_vars

\* C16's case: the basic log was cleared of its records while the enhanced
\* log holds records
C16_Witness ==
  /\ BasicKey # EnhancedKey
  /\ call.op = "clear"
  /\ call.key = BasicKey
  /\ call.before > 0
  /\ Len(Log(EnhancedKey)) >= 2

(***************************************************************************)
(* The trends and the skill breakdown, checked under Spec.                 *)
(***************************************************************************)
\* d is the difference the two quarters' averages give: of the averages each
\* rounded as calculateAverageScore rounds, or of the exact averages, rounded
IsQuarterDifference(d, recent, preceding, q) ==
  \/ \E r, e \in 0..100 :
       /\ IsRoundedQuotient(r, Total(recent), q)
       /\ IsRoundedQuotient(e, Total(preceding), q)
       /\ d = r - e
  \/ IsRoundedQuotient(d, Total(recent) - Total(preceding), q)

\* C17: the enhanced tracker's improvementTrend is 0 for fewer than 4
\* sessions; for n >= 4 sessions and q = floor(n / 4) it is the average
\* overallScore of the q most recent sessions less the average overallScore of
\* the q sessions right before them.
C17_TrendComparesLastTwoQuarters ==
  LET n     == Len(Log(EnhancedKey))
      q     == n \div 4
      trend == getAdvancedStats(store).improvementTrend
  IN  /\ n < 4 => trend = 0
      /\ n >= 4 =>
           IsQuarterDifference(trend,
                               ScoreValues(EnhancedKey, n - q + 1, n),
                               ScoreValues(EnhancedKey, n - 2 * q + 1, n - q), q)

\* C18: with n >= 1 sessions in the basic log and h = floor(n / 2), the
\* improvementTrend is the mean overallScore of sessions h+1..n less the mean
\* overallScore of sessions 1..h, rounded; the mean of an empty first half
\* (n = 1) counts as 0.
C18_BasicTrendComparesHalves ==
  LET n      == Len(Log(BasicKey))
      h      == n \div 2
      first  == Total(ScoreValues(BasicKey, 1, h))
      second == Total(ScoreValues(BasicKey, h + 1, n))
      trend  == getProgressStats(store).improvementTrend
  IN  /\ n = 1 => IsRoundedQuotient(trend, second, 1)
      /\ n >= 2 =>
           IsRoundedQuotient(trend, second * h - first * (n - h), h * (n - h))

\* C18's case: three sessions scoring 70, 71, 70; the second half's mean 70.5
\* less the first half's 70 rounds to 1
C18_Witness ==
  /\ Len(Log(BasicKey)) = 3
  /\ ScoreValues(BasicKey, 1, 3) = << 70, 71, 70 >>
  /\ getProgressStats(store).improvementTrend = 1

\* C19: for a non-empty enhanced log of n sessions the skill breakdown has
\* one entry for each of the six sub-metrics, whose current is the metric's
\* value in the most recent session, whose sessionHistory is the metric's
\* values in the last min(10, n) sessions, oldest first, and whose trend is
\* the mean of the last 5 values less the mean of the values ranked 6th to
\* 10th most recent, rounded, an empty slice's mean counting as 0.
C19_SkillBreakdown ==
  LET n         == Len(Log(EnhancedKey))
      breakdown == getAdvancedStats(store).skillBreakdown
      r         == Min(5, n)
      e         == Min(10, n) - r
  IN  n >= 1 =>
        /\ Len(breakdown) = 6
        /\ \A k \in 1..6 :
             LET skill   == skills[k]
                 entry   == breakdown[k].value
                 recent  == Total(SkillValues(skill, n - r + 1, n))
                 earlier == Total(SkillValues(skill, n - r - e + 1, n - r))
             IN  /\ breakdown[k].name = skill
                 /\ entry.current = Log(EnhancedKey)[n].detailedMetrics[skill]
                 /\ entry.sessionHistory = SkillValues(skill, n - Min(10, n) + 1, n)
                 /\ e = 0 => IsRoundedQuotient(entry.trend, recent, r)
                 /\ e > 0 => IsRoundedQuotient(entry.trend,
                                               recent * e - earlier * r, r * e)

\* C19's case: eleven sessions, the second with confidence 95 and the others
\* 70: the history has the last ten values, and the last five (mean 70) less
\* the five before them (mean 75) give a trend of -5
C19_Witness ==
  /\ Len(Log(EnhancedKey)) = 11
  /\ SkillValues("confidenceScore", 1, 3) = << 70, 95, 70 >>
  /\ getAdvancedStats(store).skillBreakdown[1].value.trend = 0 - 5
  /\ Len(getAdvancedStats(store).skillBreakdown[1].value.sessionHistory) = 10

\* the labels the recommendations are given in
FocusLabel ==
  [ confidenceScore       |-> "Confidence",
    clarityScore          |-> "Clarity",
    professionalismScore  |-> "Professionalism",
    relevanceScore        |-> "Relevance",
    emotionalIntelligence |-> "Emotional Intelligence",
    structureScore        |-> "Response Structure" ]

\* how many sub-metrics come before the k-th one when they are ordered by
\* current value, lowest first, equal values in the order of declaration
FocusRank(breakdown, k) ==
  Cardinality({ j \in 1..Len(breakdown) :
                  \/ breakdown[j].value.current < breakdown[k].value.current
                  \/ /\ breakdown[j].value.current = breakdown[k].value.current
                     /\ j < k })

\* C20: for a non-empty enhanced log recommendedFocus holds exactly two
\* distinct labels: those of the sub-metric with the lowest current value in
\* the skill breakdown and of the one with the second-lowest, equal values
\* taken in the order the metrics are declared, each given by the label table.
C20_FocusIsTwoLowest ==
  LET stats     == getAdvancedStats(store)
      breakdown == stats.skillBreakdown
      focus     == stats.recommendedFocus
  IN  Len(Log(EnhancedKey)) >= 1 =>
        /\ Len(focus) = 2
        /\ focus[1] # focus[2]
        /\ \A i \in 1..2 :
             \E k \in 1..Len(breakdown) :
               /\ FocusRank(breakdown, k) = i - 1
               /\ focus[i] = FocusLabel[breakdown[k].name]

\* C20's case: relevance 55 is lowest and confidence, clarity and structure
\* tie at 70 for the second place, which goes to confidence
C20_Witness ==
  LET stats == getAdvancedStats(store)
  IN  /\ Len(Log(EnhancedKey)) >= 1
      /\ stats.skillBreakdown[1].value.current = 70
      /\ stats.skillBreakdown[2].value.current = 70
      /\ stats.skillBreakdown[4].value.current = 55
      /\ stats.skillBreakdown[6].value.current = 70
      /\ stats.recommendedFocus = << "Relevance", "Confidence" >>

(***************************************************************************)
(* Badges and milestones of the enhanced tracker, checked under Spec.      *)
(***************************************************************************)
\* the badges of the statistics, as a set
Badges == Range(getAdvancedStats(store).achievementBadges)

\* the records of the enhanced log that satisfy nothing but being AI-powered
AiPoweredCount ==
  Cardinality({ i \in 1..Len(Log(EnhancedKey)) : Log(EnhancedKey)[i].aiPowered })

\* C21: for a non-empty enhanced log the badges hold "Committed Practicer"
\* exactly when the log has 5 sessions or more, "Interview Master" exactly
\* when it has 15 or more, "Excellence Achieved" exactly when a session of the
\* log scored 90 or more, and "AI-Powered Learner" exactly when 10 sessions or
\* more of the log are AI-powered; the log is the one stored, after eviction.
C21_BadgesFollowTheLog ==
  LET n == Len(Log(EnhancedKey))
  IN  n >= 1 =>
        /\ "Committed Practicer" \in Badges <=> n >= 5
        /\ "Interview Master" \in Badges <=> n >= 15
        /\ "Excellence Achieved" \in Badges <=>
             \E i \in 1..n : Log(EnhancedKey)[i].overallScore >= 90
        /\ "AI-Powered Learner" \in Badges <=> AiPoweredCount >= 10

\* C21's case: a log past its capacity whose one session of 90 or more was
\* evicted, with 100 sessions and none AI-powered: two badges of the four
C21_Witness ==
  /\ Len(history[EnhancedKey]) = 101
  /\ history[EnhancedKey][1].overallScore >= 90
  /\ AiPoweredCount = 0
  /\ Badges = {"Committed Practicer", "Interview Master"}

\* C22, as stated: the rule of "Consistent Improver" compares each of the last
\* 5 scores with itself and so always holds: an enhanced log of 5 sessions or
\* more has the badge.
C22_ConsistentImproverAlways ==
  Len(Log(EnhancedKey)) >= 5 => "Consistent Improver" \in Badges

\* C22, amended: the rule of "Consistent Improver" compares each of the last 5
\* scores with itself by >, which no score satisfies, and the slice is never
\* empty where the rule is evaluated: no enhanced log, of whatever length and
\* scores, has the badge.
C22_ConsistentImproverNever ==
  "Consistent Improver" \notin Badges

\* C22's case: a log of 5 sessions or more, with the badge of 5 sessions and
\* without "Consistent Improver"
C22_Witness ==
  /\ Len(Log(EnhancedKey)) >= 5
  /\ Log(EnhancedKey)[1].overallScore < Log(EnhancedKey)[2].overallScore
  /\ "Committed Practicer" \in Badges
  /\ "Consistent Improver" \notin Badges

\* the thresholds a log of n sessions with average score avg has crossed
ReachedExpected(n, avg) ==
  (IF n >= 1 THEN {"First Interview Practice"} ELSE {})
    \cup (IF n >= 5 THEN {"Regular Practicer"} ELSE {})
    \cup (IF n >= 10 THEN {"Dedicated Learner"} ELSE {})
    \cup (IF avg >= 70 THEN {"Competent Interviewer"} ELSE {})
    \cup (IF avg >= 80 THEN {"Strong Interviewer"} ELSE {})
    \cup (IF avg >= 90 THEN {"Expert Interviewer"} ELSE {})

\* the nearest session-count target and the nearest average-score target that
\* such a log has not reached
NextExpected(n, avg) ==
  (IF n < 5 THEN {"Complete " \o ToString(5 - n) \o " more sessions"}
   ELSE IF n < 10 THEN {"Reach 10 total sessions"} ELSE {})
    \cup (IF avg < 70 THEN {"Achieve 70% average score"}
          ELSE IF avg < 80 THEN {"Achieve 80% average score"}
          ELSE IF avg < 90 THEN {"Achieve 90% average score"} ELSE {})

\* C23: for a non-empty enhanced log the milestones reached are exactly the
\* thresholds crossed (1, 5, 10 sessions; average score 70, 80, 90), and the
\* upcoming ones are only the nearest session-count target not yet reached and
\* the nearest average-score target not yet reached.
C23_UpcomingIsNextThresholds ==
  LET stats == getAdvancedStats(store)
      n     == Len(Log(EnhancedKey))
  IN  n >= 1 =>
        /\ Range(stats.progressMilestones.reached)
             = ReachedExpected(n, stats.averageScore)
        /\ Range(stats.progressMilestones.upcoming)
             = NextExpected(n, stats.averageScore)

(***************************************************************************)
(* The log as a state machine, checked under Spec.                         *)
(***************************************************************************)
\* the step is a call of append (returned or thrown) or of clear on the key
AppendStep(key) == call'.op = "save" /\ call'.key = key
ClearStep(key) == call'.op = "clear" /\ call'.key = key

\* C24: over appends and clears of a tracker, its log is empty exactly when
\* no append has completed since the last clear or the start; of the two
\* operations only an append takes the log from empty to non-empty and only a
\* clear takes it from non-empty to empty; an append never shortens the log:
\* completed, it adds one record below the capacity and leaves the length at
\* the capacity otherwise.
C24_LogStateMachine ==
  /\ [](\A key \in Keys : Log(key) = << >> <=> history[key] = << >>)
  /\ [][ \A key \in Keys :
           LET before == Len(LogIn(store, key))
               after  == Len(LogIn(store', key))
           IN  /\ AppendStep(key) =>
                    /\ after >= before
                    /\ after > 0 \/ call'.threw
                    /\ ~call'.threw =>
                         after = (IF before < StatedCap(key) THEN before + 1
                                  ELSE StatedCap(key))
               /\ ClearStep(key) => after = 0
               /\ (AppendStep(OtherKey(key)) \/ ClearStep(OtherKey(key))) =>
                    after = before ]_vars

\* C24's case: an append to the basic log at its capacity, the second past it
C24_Witness ==
  /\ call.op = "save" /\ call.key = BasicKey /\ ~call.threw
  /\ Len(history[BasicKey]) = 52
  /\ Len(Log(BasicKey)) = 50

(***************************************************************************)
(* Immutability of the records, checked under SpecReads.                   *)
(***************************************************************************)
ReadStep == call'.op = "read"

\* C25: a stored record is never changed: across an append every record that
\* stays in the log is the record it was, field by field, and the records
\* that stay keep their order; reading the log, its statistics or its export
\* leaves the stored items as they were; and of the trackers' operations only
\* an append or a clear of a tracker changes its stored item.
C25_RecordsImmutable ==
  [][ \A key \in Keys :
        LET before == LogIn(store, key)
            after  == LogIn(store', key)
            kept   == IF call'.threw THEN Len(after) ELSE Len(after) - 1
        IN  /\ AppendStep(key) =>
                 /\ kept <= Len(before)
                 /\ \A i \in 1..kept : after[i] = before[i + Len(before) - kept]
            /\ ReadStep => store' = store
            /\ (store'[key] # store[key] /\ call'.op \in {"save", "clear", "read"}) =>
                 AppendStep(key) \/ ClearStep(key) ]_vars

\* C25's case: the export was read of an enhanced log that an append had cut
\* at its capacity
C25_Witness ==
  /\ call.op = "read"
  /\ call.fn = "exportProgressData"
  /\ Len(history[EnhancedKey]) = 101
  /\ Len(call.value.detailedSessions) = 100
  /\ call.value.detailedSessions[1] = Log(EnhancedKey)[1]
  /\ call.value.detailedSessions[1].id = history[EnhancedKey][2].id

(***************************************************************************)
(* The table of the fallback scores, checked under SpecEngine.             *)
(***************************************************************************)
\* the commas of a piece of text
CommaCount(s) == Cardinality({ i \in 1..Len(s) : CharAt(s, i) = "," })

\* the quantities of the table, for the transcript analysed
TableWords == SelectSeq(SplitRuns(toLowerCase(transcript), WhiteSpace), NonEmpty)
TableSentences == SplitRuns(transcript, sentenceEnds)
TableSentenceCount == Len(SelectSeq(TableSentences, NonBlank))
HasFiller(word) == \E filler \in fillerWords : includes(word, filler)
TableFillerCount == Len(SelectSeq(TableWords, HasFiller))
TableHasNumbers == \E i \in 1..Len(transcript) : CharAt(transcript, i) \in Digits
TableHasExamples == TestAny(toLowerCase(transcript), exampleWords)
TableHasActionWords == TestAny(toLowerCase(transcript), actionWords)
\* lo < avgWordsPerSentence < hi
TableAvgBetween(lo, hi) ==
  LET sentences == IF TableSentenceCount > 1 THEN TableSentenceCount ELSE 1
  IN  Len(TableWords) > lo * sentences /\ Len(TableWords) < hi * sentences

\* the sentence has more than 2 commas
ManyCommas(s) == CommaCount(s) > 2

\* the four scores of the table, before the cap
TableClarity ==
  50 + Bonus(TableSentenceCount > 2, 15)
     + Bonus(TableAvgBetween(6, 25), 20)
     + Bonus(Len(SelectSeq(TableSentences, ManyCommas)) > 0, 10)
     + Bonus(100 * TableFillerCount < 8 * Len(TableWords), 15)
TableConfidence ==
  50 + Bonus(TableHasExamples, 15) + Bonus(TableHasActionWords, 10)
     + Bonus(TableHasNumbers, 10)
     + Bonus(100 * TableFillerCount < 5 * Len(TableWords), 15)
     + Bonus(TableAvgBetween(8, 20), 10)
TableProfessionalism ==
  60 + Bonus(MatchCount(toLowerCase(transcript), businessWords) > 0, 15)
     + Bonus(TableHasActionWords, 15)
     + Bonus(MatchCount(toLowerCase(transcript), casualWords) = 0, 10)
     + Bonus(TableHasNumbers, 5)
TableRelevance ==
  50 + Bonus(TableHasExamples, 20) + Bonus(TableHasNumbers, 15)
     + Bonus(TableHasActionWords, 10) + Bonus(Len(TableWords) > 50, 10)
     + Bonus(MatchCount(toLowerCase(transcript), interrogativeWords) = 0, 5)

\* the result is the fallback engine's, of a transcript that is not blank
FallbackScored == Done /\ ~result.value.aiPowered /\ ~AllWhiteSpace(transcript)

\* C26: for a non-blank transcript each fallback score is the lesser of 100
\* and its base plus the bonuses whose conditions hold, the clarity bonus of
\* 10 going to a transcript with a sentence of more than 2 commas; so no
\* score is below its base.
C26_ScoresFollowTheTable ==
  FallbackScored =>
    LET metrics == result.value.metrics
    IN  /\ metrics.confidenceScore = Min(100, TableConfidence)
        /\ metrics.clarityScore = Min(100, TableClarity)
        /\ metrics.professionalismScore = Min(100, TableProfessionalism)
        /\ metrics.relevanceScore = Min(100, TableRelevance)
        /\ metrics.confidenceScore >= 50 /\ metrics.clarityScore >= 50
        /\ metrics.professionalismScore >= 60 /\ metrics.relevanceScore >= 50

(***************************************************************************)
(* Transcription, checked under SpecTranscribe.                            *)
(***************************************************************************)
Settled == stt.pc \in {"returned", "threw"}

\* C27: a call of transcribeAudio always eventually returns a transcript or
\* throws, even when the remote service never reports the status completed
\* or error.
C27_TranscribeAlwaysSettles == (stt.pc # "idle") ~> Settled

WhisperResults == {"I led the team.", "No transcription available"}

AssemblyErrors ==
  {"Failed to fetch", "Failed to upload audio file",
   "Failed to request transcription", "Transcription failed: bad audio"}

\* C28: Whisper is attempted first exactly when an OpenAI key is set and its
\* result is returned when it succeeds; AssemblyAI is contacted only after
\* Whisper failed or was not configured; each provider is attempted at most
\* once in a call; without an AssemblyAI key the call throws that no
\* transcription service is configured; a failure of AssemblyAI is thrown.
C28_TranscriptionFailover ==
  stt.pc # "idle" =>
    /\ stt.whisperCalls = (IF apiKey # Undefined THEN 1 ELSE 0)
    /\ stt.uploads <= 1 /\ stt.requests <= 1
    /\ stt.whisper = "ok" =>
         /\ stt.pc = "returned" /\ stt.outcome \in WhisperResults
         /\ stt.uploads = 0
    /\ stt.uploads > 0 => (stt.whisper = "failed" \/ apiKey = Undefined)
    /\ stt.pc = "whisper" => stt.uploads = 0
    /\ (stt.whisper \in {"none", "failed"} /\ stt.assemblyaiKey = "") =>
         /\ stt.pc = "threw" /\ stt.uploads = 0
         /\ stt.outcome = "No transcription services configured"
    /\ stt.assembly = "failed" =>
         stt.pc = "threw" /\ stt.outcome \in AssemblyErrors

\* Whisper failed, and AssemblyAI returned its transcript at the third poll
C28_Witness ==
  /\ stt.pc = "returned" /\ stt.whisper = "failed" /\ stt.whisperCalls = 1
  /\ stt.assembly = "ok" /\ stt.polls >= 3
  /\ stt.outcome = "I led the team."

(***************************************************************************)
(* Analyses and re-analyses, checked under SpecReanalyze.                  *)
(***************************************************************************)
SavedRuns == { i \in 1..Len(runs) : runs[i] = "saved" }

\* the step ends an invocation of handleAnalyze with a write that succeeded
SavedStep ==
  /\ Running(runs)
  /\ Len(runs') = Len(runs)
  /\ runs'[Len(runs)] = "saved"

\* C29: every invocation of handleAnalyze whose write succeeds appends exactly
\* one record to the enhanced log, made from that analysis whatever path gave
\* its scores, a re-analysis through handleReanalyze included; no other step
\* changes the log, so the log holds one record for each such invocation.
C29_OneRecordPerAnalysis ==
  /\ [](Len(Log(EnhancedKey)) = Cardinality(SavedRuns))
  /\ [][LET before == LogIn(store, EnhancedKey)
             after  == LogIn(store', EnhancedKey)
         IN  IF SavedStep
             THEN /\ Len(after) = Len(before) + 1
                  /\ SubSeq(after, 1, Len(before)) = before
                  /\ MadeFrom(after[Len(after)],
                              DetailedSessionOf(result.value, questionType))
             ELSE after = before]_vars

\* an analysis and two re-analyses of one transcript were all saved, the
\* first scored by the AI and the second by the rules
C29_Witness ==
  /\ runs = << "saved", "saved", "saved" >>
  /\ Len(Log(EnhancedKey)) = 3
  /\ Log(EnhancedKey)[1].aiPowered /\ ~Log(EnhancedKey)[2].aiPowered
  /\ Log(EnhancedKey)[1].transcript = Log(EnhancedKey)[3].transcript

(***************************************************************************)
(* The two fixed metrics of a saved analysis, checked under SpecEngine.    *)
(***************************************************************************)
\* C30: every record handleAnalyze appended to the enhanced log has
\* emotionalIntelligence 75 and structureScore 70 in its detailedMetrics,
\* whatever values the AI analysis gave for the two.
C30_FixedEmotionalAndStructure ==
  \A i \in 1..Len(Log(EnhancedKey)) :
    /\ Log(EnhancedKey)[i].detailedMetrics.emotionalIntelligence = 75
    /\ Log(EnhancedKey)[i].detailedMetrics.structureScore = 70

\* an analysis the AI scored with emotionalIntelligence 82 and structureScore
\* 88 was saved
C30_Witness ==
  /\ call.op = "save"
  /\ Len(Log(EnhancedKey)) = 1
  /\ Log(EnhancedKey)[1].aiPowered
  /\ result.value.metrics.emotionalIntelligence = 82
  /\ result.value.metrics.structureScore = 88
  /\ Log(EnhancedKey)[1].detailedMetrics.confidenceScore = 85

====
